---- MODULE Spec2Model ----
(***************************************************************************)
(* A model of bin/releaser.py, the script that pulls async-profiler        *)
(* releases from GitHub, builds the ap-loader wrappers and tests them.     *)
(*                                                                         *)
(* Strings are TLA+ strings; the string operations of the script (slices,  *)
(* startswith, endswith, split) are computed character by character.       *)
(* The file system is modelled by the files and directories the script     *)
(* reads and writes; every external tool (the network, unzip, tar, mvn) is *)
(* an input whose outcome the environment chooses.                         *)
(***************************************************************************)
EXTENDS Integers, Sequences, FiniteSets, TLC

VARIABLES
    now,        \* time.time(), in seconds
    ticks,      \* how often the clock has advanced (bounds the model)
    remote,     \* the release list the GitHub API serves at this moment
    cache,      \* .cache/releases.json: [dir, exists, mtime, content]
    netCalls,   \* the number of network requests made so far
    calls,      \* the download_json calls made so far, one record each
    releases,   \* the release list a resolver query runs on
    answer,     \* the last resolver query and its result
    proc,       \* the run of cli(): its arguments, where it is, how it ended
    disk,       \* the directories ap-releases, target and releases
    events,     \* the tools and network requests of the command that is running
    atStart,    \* the cache, disk and request count when that command started
    tests,      \* the test command: its environment, its checks and their results
    hub         \* the deploy commands: the pom files, Maven Central and GitHub

vars == <<now, ticks, remote, cache, netCalls, calls, releases, answer,
          proc, disk, events, atStart, tests, hub>>

----------------------------------------------------------------------------
(* Bounds of the model *)

MaxTicks == 2
MaxCalls == 3
MaxReleases == 2
MaxCommands == 2
MaxWaits == 1

----------------------------------------------------------------------------
(* Program constants *)

SUB_VERSION == 4
CACHE_TIME == 60 * 60 * 24

----------------------------------------------------------------------------
(* Python's string operations *)

Char(s, i) == SubSeq(s, i, i)

\* s[1:]
DropFirst(s) == IF Len(s) = 0 THEN "" ELSE SubSeq(s, 2, Len(s))

\* s.startswith(p)
StartsWith(s, p) == Len(s) >= Len(p) /\ SubSeq(s, 1, Len(p)) = p

\* s.endswith(p)
EndsWith(s, p) == Len(s) >= Len(p) /\ SubSeq(s, Len(s) - Len(p) + 1, Len(s)) = p

\* c.isdigit() for a single character
IsDigit(c) == c \in {"0", "1", "2", "3", "4", "5", "6", "7", "8", "9"}

\* s.find(c) + 1 for a single character c: 0 when c does not occur
IndexOf(s, c) ==
    IF \E i \in 1..Len(s) : Char(s, i) = c
    THEN CHOOSE i \in 1..Len(s) :
            /\ Char(s, i) = c
            /\ \A j \in 1..(i - 1) : Char(s, j) # c
    ELSE 0

\* s.split(sep, maxsplit=n) for a single character sep and n >= 0
RECURSIVE SplitMax(_, _, _)
SplitMax(s, sep, n) ==
    LET i == IndexOf(s, sep)
    IN  IF n = 0 \/ i = 0
        THEN <<s>>
        ELSE <<SubSeq(s, 1, i - 1)>> \o SplitMax(SubSeq(s, i + 1, Len(s)), sep, n - 1)

\* s.split(sep)
Split(s, sep) == SplitMax(s, sep, Len(s))

\* xs[-1]
Last(xs) == xs[Len(xs)]

Range(xs) == {xs[i] : i \in 1..Len(xs)}

----------------------------------------------------------------------------
(* The releases the GitHub API can serve.  A release is the part of the     *)
(* API's release object the script reads.                                  *)

DownloadBase == "https://github.com/jvm-profiling-tools/async-profiler/releases/download/"

Asset(tag, file) == DownloadBase \o tag \o "/" \o file

Release(tag, files, pre) ==
    [tag_name |-> tag,
     assets |-> [i \in 1..Len(files) |-> Asset(tag, files[i])],
     prerelease |-> pre]

Rel29 ==
    Release("v2.9", <<"async-profiler-2.9-linux-x64.tar.gz",
                      "async-profiler-2.9-macos.zip",
                      "async-profiler-2.9-converter.jar">>, FALSE)
Rel283 ==
    Release("v2.8.3", <<"async-profiler-2.8.3-linux-musl-x64.tar.gz",
                        "async-profiler-2.8.3-macos.zip">>, FALSE)
Rel20rc == Release("v2.0-rc", <<"async-profiler-2.0-rc-linux-x64.tar.gz">>, TRUE)
RelNightly == Release("nightly", <<"async-profiler-nightly-linux-x64.tar.gz">>, TRUE)
Rel30 == Release("v3.0", <<"async-profiler-3.0-linux-x64.tar.gz">>, FALSE)
Rel188 == Release("v1.8.8", <<"async-profiler-1.8.8-linux-x64.tar.gz">>, FALSE)

ReleasePool == {Rel29, Rel283, Rel20rc, RelNightly, Rel30, Rel188}

\* The lists of up to MaxReleases releases, no release twice, in any order
ReleaseLists ==
    UNION { { xs \in [1..n -> ReleasePool] :
                \A i, j \in 1..n : i # j => xs[i] # xs[j] } : n \in 0..MaxReleases }

----------------------------------------------------------------------------
(* The metadata cache: download_json on the cache key releases.json *)

\* The outcomes of one network request: the whole body arrives; the request
\* fails before any data arrives; the transfer breaks off after the file was
\* opened for writing
NetOutcomes == {"ok", "unreachable", "broken"}

\* The cache file: whether .cache and the file exist, the file's modification
\* time, whether it holds a whole JSON document, and the release list in it
NoCache == [dir |-> FALSE, exists |-> FALSE, mtime |-> 0, whole |-> FALSE, content |-> <<>>]

\* os.makedirs(CACHE_DIR) unless it exists
make_cache_dir(c) == [c EXCEPT !.dir = TRUE]

\* A urlretrieve that removes the file it could not write
urlretrieve_unlink(c, t, net, rem) ==
    IF net = "ok"
    THEN [cache |-> [c EXCEPT !.exists = TRUE, !.mtime = t, !.whole = TRUE, !.content = rem],
          raised |-> FALSE]
    ELSE [cache |-> [c EXCEPT !.exists = FALSE, !.whole = FALSE, !.content = <<>>],
          raised |-> TRUE]

\* request.urlretrieve(url, cache_path) at time t, the API serving rem:
\* the cache file after it and whether it raised
urlretrieve(c, t, net, rem) ==
    CASE net = "ok" ->
            [cache |-> [c EXCEPT !.exists = TRUE, !.mtime = t, !.whole = TRUE, !.content = rem],
             raised |-> FALSE]
      [] net = "unreachable" ->
            [cache |-> c, raised |-> TRUE]
      [] net = "broken" ->
            [cache |-> [c EXCEPT !.exists = TRUE, !.mtime = t, !.whole = FALSE, !.content = <<>>],
             raised |-> TRUE]

\* A staleness test that keeps an entry one second too long
needs_fetch_late(c, t) == ~c.exists \/ c.mtime + CACHE_TIME < t

\* not os.path.exists(cache_path) or os.path.getmtime(cache_path) + CACHE_TIME <= time.time()
needs_fetch(c, t) == ~c.exists \/ c.mtime + CACHE_TIME <= t

\* json.load(f) of the cache file
json_load(c) ==
    IF c.whole
    THEN [outcome |-> "ok", value |-> c.content]
    ELSE [outcome |-> "JSONDecodeError", value |-> <<>>]

\* A download_json that answers from the stale entry when the fetch fails
download_json_fallback(c, t, net, rem) ==
    LET c1 == make_cache_dir(c)
        got == IF needs_fetch(c1, t)
               THEN urlretrieve(c1, t, net, rem)
               ELSE [cache |-> c1, raised |-> FALSE]
        requests == IF needs_fetch(c1, t) THEN 1 ELSE 0
        kept == IF got.raised /\ c1.exists THEN c1 ELSE got.cache
    IN  IF got.raised /\ ~c1.exists
        THEN [cache |-> got.cache, requests |-> requests,
              outcome |-> "URLError", value |-> <<>>]
        ELSE [cache |-> kept, requests |-> requests,
              outcome |-> json_load(kept).outcome,
              value |-> json_load(kept).value]

\* download_json(url, path) called at time t with cache file c: the cache
\* file after the call, the number of network requests it made, how it ended
\* ("ok", or the exception that left it) and the value it returned
download_json(c, t, net, rem) ==
    LET c1 == make_cache_dir(c)
        got == IF needs_fetch(c1, t)
               THEN urlretrieve(c1, t, net, rem)
               ELSE [cache |-> c1, raised |-> FALSE]
        requests == IF needs_fetch(c1, t) THEN 1 ELSE 0
    IN  IF got.raised
        THEN [cache |-> got.cache, requests |-> requests,
              outcome |-> "URLError", value |-> <<>>]
        ELSE [cache |-> got.cache, requests |-> requests,
              outcome |-> json_load(got.cache).outcome,
              value |-> json_load(got.cache).value]

\* get_releases()
get_releases(c, t, net, rem) == download_json(c, t, net, rem)

----------------------------------------------------------------------------
(* The state of a checkout in which cli() does not run *)

EmptyDisk ==
    [apReleases |-> FALSE, archives |-> {}, partial |-> {}, unpacked |-> {},
     target |-> {}, releasesDir |-> FALSE, jars |-> {},
     testsDir |-> FALSE, testsFiles |-> {},
     testsCodeDir |-> FALSE, testFolder |-> {}, classes |-> {}, rewritten |-> {}]

\* No test command has run: no runtime versions in the environment, no
\* test folder in a source snapshot, no flow started, no check made, no
\* script run
NoTests ==
    [javaVersions |-> <<>>, upstream |-> {}, flows |-> 0,
     checks |-> <<>>, results |-> <<>>, ran |-> <<>>]

\* No deploy command has run: the pom templates of the checkout, no pom
\* written from them, nothing in Maven Central, no release on GitHub (a
\* function from tags to releases), the jars in releases being those of
\* build 1, no deploy_maven_platform call and no deploy_github call made
NoHub ==
    [templates |-> {"pom", "pom_all"}, poms |-> {}, registry |-> {}, github |-> <<>>,
     build |-> 1, stage |-> "", deployed |-> <<>>, gh |-> <<>>]

NoProc ==
    [args |-> <<>>, status |-> "none", error |-> "", code |-> 0,
     commands |-> <<>>, release |-> "",
     idx |-> 0, phase |-> "", i |-> 0, todo |-> <<>>, stderr |-> <<>>]

NoSnapshot == [cache |-> NoCache, disk |-> EmptyDisk, netCalls |-> 0, now |-> 0]

NoRun ==
    /\ proc = NoProc
    /\ disk = EmptyDisk
    /\ events = <<>>
    /\ atStart = NoSnapshot
    /\ tests = NoTests
    /\ hub = NoHub

----------------------------------------------------------------------------
(* The cache over time: the clock advances, the API's answer changes, and   *)
(* download_json is called.                                                 *)

\* The release lists the API serves in the cache's specification
RemoteLists == { <<Rel188>>, <<Rel30, Rel188>> }

InitCache ==
    /\ now = 0
    /\ ticks = 0
    /\ remote \in RemoteLists
    /\ cache = NoCache
    /\ netCalls = 0
    /\ calls = <<>>
    /\ releases = <<>>
    /\ answer = [op |-> "none"]
    /\ NoRun

\* Time passes: a second, a second less than the TTL, or the TTL
Tick ==
    /\ ticks < MaxTicks
    /\ \E d \in {1, CACHE_TIME - 1, CACHE_TIME} : now' = now + d
    /\ ticks' = ticks + 1
    /\ UNCHANGED <<remote, cache, netCalls, calls, releases, answer, proc, disk, events, atStart, tests, hub>>

\* Upstream publishes: the API serves another list from now on
RemoteChange ==
    /\ \E r \in RemoteLists : r # remote /\ remote' = r
    /\ UNCHANGED <<now, ticks, cache, netCalls, calls, releases, answer, proc, disk, events, atStart, tests, hub>>

\* One call of download_json, with the outcome net of the request it may make
DownloadJson ==
    /\ Len(calls) < MaxCalls
    /\ \E net \in NetOutcomes :
        LET r == download_json(cache, now, net, remote)
        IN  /\ cache' = r.cache
            /\ netCalls' = netCalls + r.requests
            /\ calls' = Append(calls, [t |-> now, net |-> net, served |-> remote,
                                       before |-> cache, after |-> r.cache,
                                       requests |-> r.requests,
                                       outcome |-> r.outcome, value |-> r.value])
    /\ UNCHANGED <<now, ticks, remote, releases, answer, proc, disk, events, atStart, tests, hub>>

NextCache == Tick \/ RemoteChange \/ DownloadJson

SpecCache == InitCache /\ [][NextCache]_vars

----------------------------------------------------------------------------
(* The release resolver.  Each function is given the list get_releases()   *)
(* returned.  A result is [status, value, stderr]: status is "ok", "exit"  *)
(* (sys.exit(1)) or the name of the exception that left the function.      *)

Ok(v) == [status |-> "ok", value |-> v, stderr |-> <<>>]
Exit(msg) == [status |-> "exit", value |-> <<>>, stderr |-> msg]
Raised(ex) == [status |-> ex, value |-> <<>>, stderr |-> <<>>]

\* get_release_versions()
get_release_versions(rels) ==
    LET Supported(r) ==
            /\ ~StartsWith(DropFirst(r.tag_name), "1.")
            /\ IsDigit(Char(r.tag_name, Len(r.tag_name)))
        kept == SelectSeq(rels, Supported)
    IN  [i \in 1..Len(kept) |-> DropFirst(kept[i].tag_name)]

\* A get_release that falls back to the first release of the list
get_release_or_first(release, rels) ==
    LET Match(r) == r.tag_name = "v" \o release
        rel == SelectSeq(rels, Match)
    IN  IF rel # <<>> THEN Ok(rel[1])
        ELSE IF rels # <<>> THEN Ok(rels[1])
        ELSE Exit(get_release_versions(rels))

\* get_release(release): the release object, or the message on stderr (the
\* versions it lists) and sys.exit(1).  The second get_releases() call, for
\* the message, follows the first at once and reads the same cache file.
get_release(release, rels) ==
    LET Match(r) == r.tag_name = "v" \o release
        rel == SelectSeq(rels, Match)
    IN  IF rel # <<>>
        THEN Ok(rel[1])
        ELSE Exit(get_release_versions(rels))

\* A get_most_recent_release that takes the last matching version
get_most_recent_release_last(rels) ==
    LET Current(v) == StartsWith(v, "2.")
        found == SelectSeq(get_release_versions(rels), Current)
    IN  IF found = <<>> THEN Raised("IndexError") ELSE Ok(found[Len(found)])

\* get_most_recent_release()
get_most_recent_release(rels) ==
    LET Current(v) == StartsWith(v, "2.")
        found == SelectSeq(get_release_versions(rels), Current)
    IN  IF found = <<>> THEN Raised("IndexError") ELSE Ok(found[1])

\* get_release_asset_urls(release)
get_release_asset_urls(release, rels) ==
    LET rel == get_release(release, rels)
        Archive(url) == EndsWith(url, ".zip") \/ EndsWith(url, ".tar.gz")
    IN  IF rel.status # "ok" THEN rel ELSE Ok(SelectSeq(rel.value.assets, Archive))

\* A release_platform_for_url that takes what follows the second "-"
release_platform_for_url_two(archive_url) ==
    LET file == Last(Split(archive_url, "/"))
        fields == SplitMax(file, "-", 2)
    IN  IF Len(fields) < 3
        THEN Raised("IndexError")
        ELSE Ok(Split(fields[3], ".")[1])

\* release_platform_for_url(archive_url)
release_platform_for_url(archive_url) ==
    LET file == Last(Split(archive_url, "/"))
        fields == SplitMax(file, "-", 3)
    IN  IF Len(fields) < 4
        THEN Raised("IndexError")
        ELSE Ok(Split(fields[4], ".")[1])

\* get_release_platforms(release)
get_release_platforms(release, rels) ==
    LET urls == get_release_asset_urls(release, rels)
        Platform(i) == release_platform_for_url(urls.value[i])
    IN  IF urls.status # "ok" THEN urls
        ELSE IF \E i \in 1..Len(urls.value) : Platform(i).status # "ok"
        THEN Raised("IndexError")
        ELSE Ok([i \in 1..Len(urls.value) |-> Platform(i).value])

----------------------------------------------------------------------------
(* The resolver's functions applied to release lists, versions and asset   *)
(* file names.                                                             *)

\* The versions asked for on the command line
AskedVersions == {"2.9", "2.8.3", "2.0-rc", "3.0", "1.8.8", "2.7"}

\* The parts asset file names are put together from
AssetNames == {"async-profiler", "tool", "ap"}
AssetVersions == {"2.9", "2.8.3", "2.0-rc"}
AssetPlatforms == {"linux-x64", "macos", "linux-musl-x64"}
AssetEndings == {".zip", ".tar.gz"}

\* The release of the scenario of the specification, section 8
RelScenario == Release("v2.8.3", <<"ap-2.8.3-linux-x64.tar.gz", "ap-2.8.3-macos.zip">>, FALSE)

InitResolve ==
    /\ now = 0
    /\ ticks = 0
    /\ remote = <<>>
    /\ cache = NoCache
    /\ netCalls = 0
    /\ calls = <<>>
    /\ releases \in ReleaseLists \cup {<<RelScenario>>}
    /\ answer = [op |-> "none"]
    /\ NoRun

\* Each behaviour asks one question of its release list
Unasked ==
    /\ answer.op = "none"
    /\ UNCHANGED <<now, ticks, remote, cache, netCalls, calls, releases, proc, disk, events, atStart, tests, hub>>

MostRecent ==
    /\ Unasked
    /\ answer' = [op |-> "get_most_recent_release",
                  result |-> get_most_recent_release(releases)]

Versions ==
    /\ Unasked
    /\ answer' = [op |-> "get_release_versions",
                  result |-> Ok(get_release_versions(releases))]

Resolve ==
    /\ Unasked
    /\ \E v \in AskedVersions :
            answer' = [op |-> "get_release", release |-> v,
                       result |-> get_release(v, releases)]

Platforms ==
    /\ Unasked
    /\ \E v \in AskedVersions :
            answer' = [op |-> "get_release_platforms", release |-> v,
                       result |-> get_release_platforms(v, releases)]

PlatformForUrl ==
    /\ Unasked
    /\ \E name \in AssetNames, version \in AssetVersions,
          platform \in AssetPlatforms, ending \in AssetEndings :
            answer' = [op |-> "release_platform_for_url",
                       name |-> name, version |-> version,
                       platform |-> platform, ending |-> ending,
                       result |-> release_platform_for_url(
                            Asset("v" \o version,
                                  name \o "-" \o version \o "-" \o platform \o ending))]

NextResolve == MostRecent \/ Versions \/ Resolve \/ Platforms \/ PlatformForUrl

SpecResolve == InitResolve /\ [][NextResolve]_vars

----------------------------------------------------------------------------
(* download_release and build_release on the working directory (disk):    *)
(* the archives in ap-releases (those a broken transfer left incomplete    *)
(* are in partial), the directories unpacked there, the jars in target     *)
(* and the jars in releases.                                               *)

\* One call of an external tool or of the network, and whether it succeeded
Event(op, arg, ok) == [op |-> op, arg |-> arg, ok |-> ok]

\* An execute that does not look at the exit status
execute_unchecked(ok) == "ok"

\* execute(args): subprocess.check_call raises on a non-zero exit status
execute(ok) == IF ok THEN "ok" ELSE "CalledProcessError"

\* request.urlretrieve(release_url, archive_file)
fetch_archive(d, file, net) ==
    CASE net = "ok" ->
            [disk |-> [d EXCEPT !.archives = @ \cup {file}, !.partial = @ \ {file}],
             raised |-> FALSE]
      [] net = "unreachable" ->
            [disk |-> d, raised |-> TRUE]
      [] net = "broken" ->
            [disk |-> [d EXCEPT !.archives = @ \cup {file}, !.partial = @ \cup {file}],
             raised |-> TRUE]

\* unzip -o / tar -xzf of an archive into ap-releases: it fails on an
\* incomplete archive, and when the environment makes it fail (unpack_ok)
unpack(d, file, dir, unpack_ok) ==
    LET ok == unpack_ok /\ file \notin d.partial
    IN  [disk |-> IF ok THEN [d EXCEPT !.unpacked = @ \cup {dir}] ELSE d,
         ok |-> ok]

\* A download_release_url that fetches the archive whether it is there or not
download_release_url_refetch(d, release, release_url, net, unpack_ok) ==
    LET d1 == [d EXCEPT !.apReleases = TRUE]
        ending == IF EndsWith(release_url, ".zip") THEN ".zip" ELSE ".tar.gz"
        platform == release_platform_for_url(release_url)
        name == "async-profiler-" \o release \o "-" \o platform.value
        got == fetch_archive(d1, name \o ending, net)
        tool == IF EndsWith(release_url, ".zip") THEN "unzip" ELSE "tar"
        out == unpack(got.disk, name \o ending, name, unpack_ok)
    IN  IF got.raised
        THEN [disk |-> got.disk, status |-> "URLError",
              events |-> <<Event("urlretrieve", release_url, FALSE)>>]
        ELSE [disk |-> out.disk, status |-> execute(out.ok),
              events |-> <<Event("urlretrieve", release_url, TRUE),
                           Event(tool, name \o ending, out.ok)>>]

\* download_release_url(release, release_url): the disk after it, how it
\* ended and the tools it called
download_release_url(d, release, release_url, net, unpack_ok) ==
    LET d1 == [d EXCEPT !.apReleases = TRUE]
        ending == IF EndsWith(release_url, ".zip") THEN ".zip" ELSE ".tar.gz"
        platform == release_platform_for_url(release_url)
        name == "async-profiler-" \o release \o "-" \o platform.value
        have == name \o ending \in d1.archives
        got == IF have THEN [disk |-> d1, raised |-> FALSE]
               ELSE fetch_archive(d1, name \o ending, net)
        fetched == IF have THEN <<>> ELSE <<Event("urlretrieve", release_url, ~got.raised)>>
        tool == IF EndsWith(release_url, ".zip") THEN "unzip" ELSE "tar"
        out == unpack(got.disk, name \o ending, name, unpack_ok)
    IN  IF ~(EndsWith(release_url, ".zip") \/ EndsWith(release_url, ".tar.gz"))
                \/ platform.status # "ok"
        THEN [disk |-> d1, status |-> "IndexError", events |-> <<>>]
        ELSE IF got.raised
        THEN [disk |-> got.disk, status |-> "URLError", events |-> fetched]
        ELSE [disk |-> out.disk, status |-> execute(out.ok),
              events |-> fetched \o <<Event(tool, name \o ending, out.ok)>>]

CodeUrl(release) ==
    "https://github.com/jvm-profiling-tools/async-profiler/archive/refs/tags/v"
        \o release \o ".zip"

\* download_release_code(release): the archive is fetched unless it is
\* there (into ap-releases, which must exist), unpacked, and the directory
\* it unpacks to replaces async-profiler-<release>-code
download_release_code(d, release, net, unpack_ok) ==
    LET dest == "async-profiler-" \o release \o "-code"
        file == dest \o ".zip"
        have == file \in d.archives
        got == IF have THEN [disk |-> d, raised |-> FALSE]
               ELSE IF d.apReleases THEN fetch_archive(d, file, net)
               ELSE [disk |-> d, raised |-> TRUE]
        fetched == IF have THEN <<>>
                   ELSE <<Event("urlretrieve", CodeUrl(release), ~got.raised)>>
        out == unpack(got.disk, file, dest, unpack_ok)
    IN  IF got.raised
        THEN [disk |-> got.disk, events |-> fetched,
              status |-> IF ~have /\ ~d.apReleases /\ net # "unreachable"
                         THEN "FileNotFoundError" ELSE "URLError"]
        ELSE [disk |-> out.disk, status |-> execute(out.ok),
              events |-> fetched \o <<Event("unzip", file, out.ok)>>]

Jar(platform, release) ==
    "ap-loader-" \o platform \o "-" \o release \o "-" \o ToString(SUB_VERSION) \o ".jar"

FullJar(platform, release) ==
    "ap-loader-" \o platform \o "-" \o release \o "-" \o ToString(SUB_VERSION) \o "-full.jar"

\* release_target_file(release, platform), within releases/
release_target_file(release, platform) == Jar(platform, release)

\* A build order that makes the "all" bundle first
build_order_all_first(platforms) == <<"all">> \o platforms

\* The builds of build_release in the order it makes them: the loop over
\* the platforms, then "all"
build_order(platforms) == platforms \o <<"all">>

\* One build of build_release: mvn ... package assembly:single (with
\* -f pom_all.xml for "all"), which leaves the full jar in target, then
\* shutil.copy of that jar to releases/
build_platform(d, release, platform, mvn_ok) ==
    LET built == IF mvn_ok
                 THEN [d EXCEPT !.target = @ \cup {FullJar(platform, release)}]
                 ELSE d
        there == FullJar(platform, release) \in built.target
        copied == [built EXCEPT !.jars = @ \cup {Jar(platform, release)}]
    IN  IF execute(mvn_ok) # "ok"
        THEN [disk |-> built, status |-> execute(mvn_ok),
              events |-> <<Event("mvn", platform, mvn_ok)>>]
        ELSE IF ~there
        THEN [disk |-> built, status |-> "FileNotFoundError",
              events |-> <<Event("mvn", platform, mvn_ok), Event("copy", platform, FALSE)>>]
        ELSE [disk |-> copied, status |-> "ok",
              events |-> <<Event("mvn", platform, mvn_ok), Event("copy", platform, TRUE)>>]

\* An rmtree that raises when the directory is not there
rmtree_strict(there) == IF there THEN "ok" ELSE "FileNotFoundError"

\* shutil.rmtree(path, ignore_errors=True): no exception leaves it, whether
\* the directory is there or not
rmtree(there) == "ok"

\* How clear() ends: the first exception of its five rmtree calls, if any
clear_status(d) ==
    LET calls5 == <<rmtree(d.apReleases), rmtree(d.releasesDir), rmtree(d.target # {}),
                    rmtree(d.testsDir), rmtree(d.testsCodeDir)>>
        raised == { k \in 1..5 : calls5[k] # "ok" }
    IN  IF raised = {} THEN "ok"
        ELSE calls5[CHOOSE k \in raised : \A j \in raised : k <= j]

\* clear(): the five directories are removed with all they hold
clear(d) ==
    [d EXCEPT !.apReleases = FALSE, !.archives = {}, !.partial = {}, !.unpacked = {},
              !.target = {}, !.releasesDir = FALSE, !.jars = {},
              !.testsDir = FALSE, !.testsFiles = {},
              !.testsCodeDir = FALSE, !.testFolder = {}, !.classes = {}, !.rewritten = {}]

----------------------------------------------------------------------------
(* cli(): the command line is parsed, then its commands run one after the   *)
(* other.  A command runs in steps: the step that starts it runs it up to   *)
(* and including its first look at the release list; download_release      *)
(* then takes one step for each asset and one for the source snapshot,     *)
(* build_release after that one step for the platform list and one for     *)
(* each build.                                                             *)

AvailableCommands ==
    {"current_version", "versions", "download", "build", "test", "deploy_mvn",
     "deploy_gh", "deploy", "deploy_release", "clear"}

\* The command names on the command lines of the model
ArgCommands == {"current_version", "versions", "download", "build", "clear", "bogus"}

\* The versions on the command lines of the model
ArgVersions == {"2.9", "2.7", "1.8.8"}

\* The command lines: up to MaxCommands command names, then a version or not
ArgLines ==
    LET names == UNION { [1..n -> ArgCommands] : n \in 0..MaxCommands }
    IN  names \cup { Append(cs, v) : cs \in names, v \in ArgVersions }

\* The release list the API serves while cli() runs
ServedList == <<Rel29, Rel283, Rel188>>

ReleasesUrl == "https://api.github.com/repos/jvm-profiling-tools/async-profiler/releases"

\* parse_cli_args(): the commands and the release ("" for None), or the
\* exit on the first unknown command
parse_cli_args(args) ==
    LET given == args # <<>> /\ IsDigit(Char(Last(args), 1))
        names == IF given THEN SubSeq(args, 1, Len(args) - 1) ELSE args
    IN  IF \E k \in 1..Len(names) : names[k] \notin AvailableCommands
        THEN [status |-> "exit", commands |-> <<>>, release |-> ""]
        ELSE [status |-> "ok", commands |-> names,
              release |-> IF given THEN Last(args) ELSE ""]

\* What a get_releases() call adds to the events and to the request count
MetaEvents(r) ==
    IF r.requests = 1
    THEN <<Event("urlretrieve", ReleasesUrl, r.outcome # "URLError")>>
    ELSE <<>>

Requests(evs) == Cardinality({ k \in 1..Len(evs) : evs[k].op = "urlretrieve" })

\* An exception nothing catches ends the process with exit status 1
Failed(p, error) == [p EXCEPT !.status = "raised", !.error = error, !.code = 1]

\* get_release found no release: the message on stderr and sys.exit(1)
NotFound(p, versions) ==
    [p EXCEPT !.status = "exit", !.error = "release not found", !.code = 1,
              !.stderr = versions]

InitCli ==
    /\ now = 0
    /\ ticks = 0
    /\ remote = ServedList
    /\ cache = NoCache
    /\ netCalls = 0
    /\ calls = <<>>
    /\ releases = <<>>
    /\ answer = [op |-> "none"]
    /\ proc \in { [NoProc EXCEPT !.args = a, !.status = "start"] : a \in ArgLines }
    /\ disk = EmptyDisk
    /\ events = <<>>
    /\ atStart = NoSnapshot
    /\ tests = NoTests
    /\ hub = NoHub

Untouched == UNCHANGED <<remote, calls, releases, answer, tests, hub>>

\* parse_cli_args() at the start of cli(): without a release on the command
\* line the release is get_most_recent_release()
ParseCliArgs ==
    /\ proc.status = "start"
    /\ LET parsed == parse_cli_args(proc.args)
           ready == [proc EXCEPT !.status = "running", !.phase = "return",
                                 !.commands = parsed.commands]
       IN  \/ /\ parsed.status = "exit"
              /\ proc' = [proc EXCEPT !.status = "exit", !.error = "unknown command",
                                      !.code = 1]
              /\ UNCHANGED <<cache, netCalls>>
           \/ /\ parsed.status = "ok" /\ parsed.release # ""
              /\ proc' = [ready EXCEPT !.release = parsed.release]
              /\ UNCHANGED <<cache, netCalls>>
           \/ /\ parsed.status = "ok" /\ parsed.release = ""
              /\ \E net \in NetOutcomes :
                    LET r == get_releases(cache, now, net, remote)
                        recent == get_most_recent_release(r.value)
                    IN  /\ cache' = r.cache
                        /\ netCalls' = netCalls + r.requests
                        /\ proc' = IF r.outcome # "ok" THEN Failed(proc, r.outcome)
                                   ELSE IF recent.status # "ok"
                                   THEN Failed(proc, recent.status)
                                   ELSE [ready EXCEPT !.release = recent.value]
    /\ UNCHANGED <<now, ticks, disk, events, atStart>>
    /\ Untouched

\* A loop that goes on to the next command after an exception
AtCommand_after_error(names) ==
    /\ proc.status \in {"running", "raised"}
    /\ proc.phase = "return"
    /\ proc.idx < Len(proc.commands)
    /\ proc.commands[proc.idx + 1] \in names

\* The loop of cli() is at its next command
AtCommand(names) ==
    /\ proc.status = "running"
    /\ proc.phase = "return"
    /\ proc.idx < Len(proc.commands)
    /\ proc.commands[proc.idx + 1] \in names

Snapshot == [cache |-> cache, disk |-> disk, netCalls |-> netCalls, now |-> now]

\* current_version and versions: print what get_most_recent_release() or
\* get_release_versions() gives
RunQuery ==
    /\ AtCommand({"current_version", "versions"})
    /\ \E net \in NetOutcomes :
        LET r == get_releases(cache, now, net, remote)
            recent == get_most_recent_release(r.value)
            started == [proc EXCEPT !.idx = @ + 1]
        IN  /\ cache' = r.cache
            /\ netCalls' = netCalls + r.requests
            /\ events' = MetaEvents(r)
            /\ proc' = IF r.outcome # "ok" THEN Failed(started, r.outcome)
                       ELSE IF started.commands[started.idx] = "current_version"
                               /\ recent.status # "ok"
                       THEN Failed(started, recent.status)
                       ELSE started
    /\ atStart' = Snapshot
    /\ UNCHANGED <<now, ticks, disk>>
    /\ Untouched

\* clear
RunClear ==
    /\ AtCommand({"clear"})
    /\ proc' = IF clear_status(disk) # "ok"
               THEN Failed([proc EXCEPT !.idx = @ + 1], clear_status(disk))
               ELSE [proc EXCEPT !.idx = @ + 1]
    /\ disk' = clear(disk)
    /\ events' = <<>>
    /\ atStart' = Snapshot
    /\ UNCHANGED <<now, ticks, cache, netCalls>>
    /\ Untouched

\* download and build, up to the asset list of download_release:
\* build_release makes the releases directory first
StartDownload ==
    /\ AtCommand({"download", "build"})
    /\ \E net \in NetOutcomes :
        LET r == get_releases(cache, now, net, remote)
            urls == get_release_asset_urls(proc.release, r.value)
            started == [proc EXCEPT !.idx = @ + 1]
        IN  /\ cache' = r.cache
            /\ netCalls' = netCalls + r.requests
            /\ events' = MetaEvents(r)
            /\ proc' = IF r.outcome # "ok" THEN Failed(started, r.outcome)
                       ELSE IF urls.status = "exit"
                       THEN NotFound(started, urls.stderr)
                       ELSE [started EXCEPT !.todo = urls.value, !.i = 1,
                                !.phase = IF urls.value = <<>> THEN "code" ELSE "assets"]
    /\ disk' = IF proc.commands[proc.idx + 1] = "build"
               THEN [disk EXCEPT !.releasesDir = TRUE] ELSE disk
    /\ atStart' = Snapshot
    /\ UNCHANGED <<now, ticks>>
    /\ Untouched

\* download_release_url for the next asset
AssetStep ==
    /\ proc.status = "running"
    /\ proc.phase = "assets"
    /\ \E net \in NetOutcomes, unpack_ok \in BOOLEAN :
        LET r == download_release_url(disk, proc.release, proc.todo[proc.i], net, unpack_ok)
        IN  /\ disk' = r.disk
            /\ events' = events \o r.events
            /\ netCalls' = netCalls + Requests(r.events)
            /\ proc' = IF r.status # "ok" THEN Failed(proc, r.status)
                       ELSE IF proc.i < Len(proc.todo) THEN [proc EXCEPT !.i = @ + 1]
                       ELSE [proc EXCEPT !.phase = "code"]
    /\ UNCHANGED <<now, ticks, cache, atStart>>
    /\ Untouched

\* download_release_code, the end of download_release
CodeStep ==
    /\ proc.status = "running"
    /\ proc.phase = "code"
    /\ \E net \in NetOutcomes, unpack_ok \in BOOLEAN :
        LET r == download_release_code(disk, proc.release, net, unpack_ok)
        IN  /\ disk' = r.disk
            /\ events' = events \o r.events
            /\ netCalls' = netCalls + Requests(r.events)
            /\ proc' = IF r.status # "ok" THEN Failed(proc, r.status)
                       ELSE IF proc.commands[proc.idx] = "download"
                       THEN [proc EXCEPT !.phase = "return"]
                       ELSE [proc EXCEPT !.phase = "platforms"]
    /\ UNCHANGED <<now, ticks, cache, atStart>>
    /\ Untouched

\* build_release after download_release: get_release_platforms(release)
PlatformsStep ==
    /\ proc.status = "running"
    /\ proc.phase = "platforms"
    /\ \E net \in NetOutcomes :
        LET r == get_releases(cache, now, net, remote)
            platforms == get_release_platforms(proc.release, r.value)
        IN  /\ cache' = r.cache
            /\ netCalls' = netCalls + r.requests
            /\ events' = events \o MetaEvents(r)
            /\ proc' = IF r.outcome # "ok" THEN Failed(proc, r.outcome)
                       ELSE IF platforms.status = "exit"
                       THEN NotFound(proc, platforms.stderr)
                       ELSE IF platforms.status # "ok" THEN Failed(proc, platforms.status)
                       ELSE [proc EXCEPT !.todo = build_order(platforms.value), !.i = 1,
                                         !.phase = "build"]
    /\ UNCHANGED <<now, ticks, disk, atStart>>
    /\ Untouched

\* The next build of build_release
BuildStep ==
    /\ proc.status = "running"
    /\ proc.phase = "build"
    /\ \E mvn_ok \in BOOLEAN :
        LET r == build_platform(disk, proc.release, proc.todo[proc.i], mvn_ok)
        IN  /\ disk' = r.disk
            /\ events' = events \o r.events
            /\ proc' = IF r.status # "ok" THEN Failed(proc, r.status)
                       ELSE IF proc.i < Len(proc.todo) THEN [proc EXCEPT !.i = @ + 1]
                       ELSE [proc EXCEPT !.phase = "return"]
    /\ UNCHANGED <<now, ticks, cache, netCalls, atStart>>
    /\ Untouched

\* The loop of cli() is through
Finish ==
    /\ proc.status = "running"
    /\ proc.phase = "return"
    /\ proc.idx = Len(proc.commands)
    /\ proc' = [proc EXCEPT !.status = "done"]
    /\ UNCHANGED <<now, ticks, cache, netCalls, disk, events, atStart>>
    /\ Untouched

\* A day passes while cli() runs
Wait ==
    /\ proc.status = "running"
    /\ ticks < MaxWaits
    /\ now' = now + CACHE_TIME
    /\ ticks' = ticks + 1
    /\ UNCHANGED <<cache, netCalls, proc, disk, events, atStart>>
    /\ Untouched

NextCli ==
    \/ ParseCliArgs
    \/ RunQuery
    \/ RunClear
    \/ StartDownload
    \/ AssetStep
    \/ CodeStep
    \/ PlatformsStep
    \/ BuildStep
    \/ Finish
    \/ Wait

SpecCli == InitCli /\ [][NextCli]_vars

----------------------------------------------------------------------------
(* test_release: build_tests, test_releases_basic_execution and            *)
(* run_async_profiler_tests.  The directory .tests holds the recording and  *)
(* the report of the basic execution checks, .tests_code the copy of the   *)
(* upstream sources whose test folder holds the test scripts.              *)

\* The orders in which os.listdir can give the files S
Orders(S) ==
    { f \in [1..Cardinality(S) -> S] : \A i, j \in 1..Cardinality(S) : f[i] = f[j] => i = j }

\* file.endswith(".sh") and not file.startswith("fd")
is_test_script(file) == EndsWith(file, ".sh") /\ ~StartsWith(file, "fd")

\* build_tests(release), the test folder of the source snapshot holding the
\* files upstream, which os.listdir gives in the order listing: the disk
\* after it, how it ended and the tools it called
build_tests(d, release, upstream, listing, clear_ok, javac_ok) ==
    LET d1 == [d EXCEPT !.testsCodeDir = FALSE, !.testFolder = {},
                        !.classes = {}, !.rewritten = {}]
        cleared == clear_ok /\ release_target_file(release, "all") \in d.jars
        d2 == [d1 EXCEPT !.testsDir = TRUE]
        code == "async-profiler-" \o release \o "-code"
        d3 == [d2 EXCEPT !.testsCodeDir = TRUE, !.testFolder = upstream]
        IsJava(k) == EndsWith(listing[k], ".java")
        javas == { k \in 1..Len(listing) : IsJava(k) }
        stop == IF javac_ok \/ javas = {} THEN Len(listing) + 1
                ELSE CHOOSE k \in javas : \A j \in javas : k <= j
        done == { listing[k] : k \in 1..(stop - 1) }
        d4 == [d3 EXCEPT !.classes = { f \in done : EndsWith(f, ".java") },
                         !.rewritten = { f \in done : is_test_script(f) }]
        upto == IF stop > Len(listing) THEN Len(listing) ELSE stop
        compiled == LET Java(e) == EndsWith(e.arg, ".java")
                    IN  SelectSeq([k \in 1..upto |-> Event("javac", listing[k], javac_ok)], Java)
    IN  IF execute(cleared) # "ok"
        THEN [disk |-> d1, status |-> execute(cleared),
              events |-> <<Event("java-clear", release, FALSE)>>]
        ELSE IF code \notin d.unpacked
        THEN [disk |-> d2, status |-> "FileNotFoundError",
              events |-> <<Event("java-clear", release, TRUE)>>]
        ELSE [disk |-> d4, status |-> IF stop > Len(listing) THEN "ok" ELSE execute(javac_ok),
              events |-> <<Event("java-clear", release, TRUE)>> \o compiled]

\* clear_tests_dir(): shutil.rmtree with ignore_errors removes the
\* directories in .tests (their names end in "/" here) and leaves every
\* regular file where it is
clear_tests_dir(d) == [d EXCEPT !.testsFiles = { f \in @ : ~EndsWith(f, "/") }]

\* What the three commands of one basic execution check can do: the
\* agentpath command prints a usable path, prints another, or exits
\* non-zero; the profiled program and the converter write their file, exit
\* with status 0 without writing it, or exit non-zero
CheckOutcomes ==
    [agentpath : {"ok", "invalid", "fails"},
     run : {"writes", "silent", "fails"},
     conv : {"writes", "silent", "fails"}]

\* test_release_basic_execution(release, platform, ignore_output): the disk
\* after it, what it returned (or the exception that left it) and the
\* commands it ran, with the files clear_tests_dir left it in the tests
\* directory (found) and the files its own commands wrote (wrote).  Without
\* the jar java itself exits non-zero.
test_release_basic_execution(d, release, platform, out) ==
    LET d1 == clear_tests_dir(d)
        found == d1.testsFiles
        recording == IF out.run = "writes" THEN {"profile.jfr"} ELSE {}
        report == IF out.conv = "writes" THEN {"flamegraph.html"} ELSE {}
        agentpath == IF release_target_file(release, platform) \in d.jars
                     THEN out.agentpath ELSE "fails"
        asked == <<Event("agentpath", platform, agentpath # "fails")>>
        d2 == IF out.run = "writes" THEN [d1 EXCEPT !.testsFiles = @ \cup {"profile.jfr"}]
              ELSE d1
        ran == asked \o <<Event("javaagent", platform, out.run # "fails")>>
        d3 == IF out.conv = "writes" THEN [d2 EXCEPT !.testsFiles = @ \cup {"flamegraph.html"}]
              ELSE d2
        converted == ran \o <<Event("converter", platform, out.conv # "fails")>>
    IN  IF ~d.testsDir
        THEN [disk |-> d, status |-> "FileNotFoundError", passed |-> FALSE, events |-> <<>>,
              found |-> {}, wrote |-> {}]
        ELSE IF agentpath # "ok"
        THEN [disk |-> d1, status |-> "ok", passed |-> FALSE, events |-> asked,
              found |-> found, wrote |-> {}]
        ELSE IF out.run = "fails" \/ "profile.jfr" \notin d2.testsFiles
        THEN [disk |-> d2, status |-> "ok", passed |-> FALSE, events |-> ran,
              found |-> found, wrote |-> recording]
        ELSE IF out.conv = "fails" \/ "flamegraph.html" \notin d3.testsFiles
        THEN [disk |-> d3, status |-> "ok", passed |-> FALSE, events |-> converted,
              found |-> found, wrote |-> recording \cup report]
        ELSE [disk |-> d3, status |-> "ok", passed |-> TRUE, events |-> converted,
              found |-> found, wrote |-> recording \cup report]

\* run_async_profiler_test(test_script): sh runs the script, and whatever
\* it raises is caught and makes the result False
run_async_profiler_test(ok) == ok

\* A verdict that is content with one platform or more
platforms_verdict_some(results) ==
    IF results = <<>> THEN "diagnose" ELSE "all"

\* test_releases_basic_execution after the checks of the platforms, results
\* being those that passed: the diagnostic runs and an exception, an
\* exception at once, or the check of the "all" jar
platforms_verdict(results) ==
    IF results = <<>> THEN "diagnose"
    ELSE IF Len(results) > 1 THEN "raise"
    ELSE "all"

\* A verdict that lets the run go on whatever the diagnostic run returned
all_verdict_lenient(again, passed) ==
    IF passed \/ again THEN "suite" ELSE "allagain"

\* test_releases_basic_execution after a check of the "all" jar, again
\* telling the diagnostic run from the first one: the function returns, the
\* diagnostic run follows, or the exception is raised
all_verdict(again, passed) ==
    IF passed THEN "suite"
    ELSE IF ~again THEN "allagain"
    ELSE "raise"

\* A loop that gives up at the first script that failed
tests_verdict_first_failure(i, n, failed) ==
    IF failed THEN "raise"
    ELSE IF i < n THEN "next"
    ELSE "return"

\* run_async_profiler_tests after script i of n, failed telling whether a
\* script has failed so far: the next script, the exception, or the return
tests_verdict(i, n, failed) ==
    IF i < n THEN "next"
    ELSE IF failed THEN "raise"
    ELSE "return"

\* The checkout after download_release and build_release went through
RECURSIVE DownloadedAssets(_, _, _)
DownloadedAssets(d, release, urls) ==
    IF urls = <<>> THEN d
    ELSE DownloadedAssets(download_release_url(d, release, Head(urls), "ok", TRUE).disk,
                          release, Tail(urls))

RECURSIVE BuiltPlatforms(_, _, _)
BuiltPlatforms(d, release, platforms) ==
    IF platforms = <<>> THEN d
    ELSE BuiltPlatforms(build_platform(d, release, Head(platforms), TRUE).disk,
                        release, Tail(platforms))

Checkout(release, rels) ==
    LET d0 == [EmptyDisk EXCEPT !.releasesDir = TRUE]
        d1 == DownloadedAssets(d0, release, get_release_asset_urls(release, rels).value)
        d2 == download_release_code(d1, release, "ok", TRUE).disk
    IN  BuiltPlatforms(d2, release, build_order(get_release_platforms(release, rels).value))

\* A release with three platforms
Rel27 ==
    Release("v2.7", <<"async-profiler-2.7-linux-x64.tar.gz",
                      "async-profiler-2.7-linux-arm64.tar.gz",
                      "async-profiler-2.7-macos.zip">>, FALSE)

\* The release list the API serves while the test command runs
VerifyList == <<Rel29, Rel27>>

\* The test folders of the source snapshots
TestFolders ==
    { {"ThreadsTarget.java", "smoke-test.sh", "fdtransfer-smoke-test.sh"},
      {"ThreadsTarget.java", "smoke-test.sh", "alloc-smoke-test.sh"} }

\* The runtime versions the environment of the test command can name
JavaVersionLists == { <<>>, <<"11", "17">> }

InitVerify ==
    /\ now = 0
    /\ ticks = 0
    /\ remote = VerifyList
    /\ cache \in {NoCache, urlretrieve(make_cache_dir(NoCache), 0, "ok", VerifyList).cache}
    /\ netCalls = 0
    /\ calls = <<>>
    /\ releases = <<>>
    /\ answer = [op |-> "none"]
    /\ proc \in { [NoProc EXCEPT !.args = a, !.status = "start"] :
                    a \in {<<"test">>, <<"test", "2.7">>} }
    /\ disk \in {EmptyDisk} \cup { Checkout(v, VerifyList) : v \in {"2.9", "2.7"} }
    /\ events = <<>>
    /\ atStart = NoSnapshot
    /\ tests \in { [NoTests EXCEPT !.javaVersions = js, !.upstream = up] :
                     js \in JavaVersionLists, up \in TestFolders }
    /\ hub = NoHub

Unverified == UNCHANGED <<now, ticks, remote, calls, releases, answer, atStart, hub>>

\* test: test_release(release) up to the end of build_tests
RunTest ==
    /\ AtCommand({"test"})
    /\ \E listing \in Orders(tests.upstream), clear_ok \in BOOLEAN, javac_ok \in BOOLEAN :
        LET r == build_tests(disk, proc.release, tests.upstream, listing, clear_ok, javac_ok)
            started == [proc EXCEPT !.idx = @ + 1]
        IN  /\ disk' = r.disk
            /\ events' = r.events
            /\ proc' = IF r.status # "ok" THEN Failed(started, r.status)
                       ELSE [started EXCEPT !.phase = "basic"]
    /\ tests' = [tests EXCEPT !.flows = @ + 1, !.checks = <<>>, !.results = <<>>, !.ran = <<>>]
    /\ UNCHANGED <<cache, netCalls>>
    /\ Unverified

\* test_releases_basic_execution: get_release_platforms(release) for the
\* checks of the platforms ("basic"), and again for their diagnostic runs
\* after none of them passed ("diagnose")
PlatformsToCheck ==
    /\ proc.status = "running"
    /\ proc.phase \in {"basic", "diagnose"}
    /\ \E net \in NetOutcomes :
        LET r == get_releases(cache, now, net, remote)
            platforms == get_release_platforms(proc.release, r.value)
            checking == IF proc.phase = "basic" THEN "check" ELSE "recheck"
        IN  /\ cache' = r.cache
            /\ netCalls' = netCalls + r.requests
            /\ events' = events \o MetaEvents(r)
            /\ proc' = IF r.outcome # "ok" THEN Failed(proc, r.outcome)
                       ELSE IF platforms.status = "exit"
                       THEN NotFound(proc, platforms.stderr)
                       ELSE IF platforms.status # "ok" THEN Failed(proc, platforms.status)
                       ELSE IF platforms.value # <<>>
                       THEN [proc EXCEPT !.todo = platforms.value, !.i = 1, !.phase = checking]
                       ELSE IF proc.phase = "basic"
                       THEN [proc EXCEPT !.phase = "diagnose"]
                       ELSE Failed(proc, "None of the platform JARs works")
    /\ UNCHANGED <<disk, tests>>
    /\ Unverified

\* One basic execution check, recorded with its platform, whether its
\* output was ignored, what it returned, the files it started with and the
\* files its commands wrote
Checked(platform, quiet, r) ==
    [tests EXCEPT !.checks = Append(@, [platform |-> platform, quiet |-> quiet,
                                        passed |-> r.passed, found |-> r.found,
                                        wrote |-> r.wrote])]

\* The next check of the list comprehension; after the last one the
\* number of platforms that passed decides
CheckStep ==
    /\ proc.status = "running"
    /\ proc.phase = "check"
    /\ \E out \in CheckOutcomes :
        LET platform == proc.todo[proc.i]
            r == test_release_basic_execution(disk, proc.release, platform, out)
            results == IF r.passed THEN Append(tests.results, platform) ELSE tests.results
        IN  /\ disk' = r.disk
            /\ tests' = [Checked(platform, TRUE, r) EXCEPT !.results = results]
            /\ proc' = IF r.status # "ok" THEN Failed(proc, r.status)
                       ELSE IF proc.i < Len(proc.todo) THEN [proc EXCEPT !.i = @ + 1]
                       ELSE IF platforms_verdict(results) = "raise"
                       THEN Failed(proc, "Multiple platform JARs work")
                       ELSE [proc EXCEPT !.phase = platforms_verdict(results)]
    /\ UNCHANGED <<cache, netCalls, events>>
    /\ Unverified

\* The next diagnostic run after no platform passed; the exception follows
\* the last one
RecheckStep ==
    /\ proc.status = "running"
    /\ proc.phase = "recheck"
    /\ \E out \in CheckOutcomes :
        LET platform == proc.todo[proc.i]
            r == test_release_basic_execution(disk, proc.release, platform, out)
        IN  /\ disk' = r.disk
            /\ tests' = Checked(platform, FALSE, r)
            /\ proc' = IF r.status # "ok" THEN Failed(proc, r.status)
                       ELSE IF proc.i < Len(proc.todo) THEN [proc EXCEPT !.i = @ + 1]
                       ELSE Failed(proc, "None of the platform JARs works")
    /\ UNCHANGED <<cache, netCalls, events>>
    /\ Unverified

\* The check of the "all" jar, and its diagnostic run if it did not pass
AllStep ==
    /\ proc.status = "running"
    /\ proc.phase \in {"all", "allagain"}
    /\ \E out \in CheckOutcomes :
        LET r == test_release_basic_execution(disk, proc.release, "all", out)
        IN  /\ disk' = r.disk
            /\ tests' = Checked("all", proc.phase = "all", r)
            /\ proc' = IF r.status # "ok" THEN Failed(proc, r.status)
                       ELSE IF all_verdict(proc.phase = "allagain", r.passed) = "raise"
                       THEN Failed(proc, "The all JAR does not work")
                       ELSE [proc EXCEPT !.phase = all_verdict(proc.phase = "allagain",
                                                               r.passed)]
    /\ UNCHANGED <<cache, netCalls, events>>
    /\ Unverified

\* run_async_profiler_tests: os.listdir of the test folder
SuiteStart ==
    /\ proc.status = "running"
    /\ proc.phase = "suite"
    /\ \E listing \in Orders(disk.testFolder) :
        LET scripts == SelectSeq(listing, is_test_script)
        IN  proc' = IF scripts = <<>> THEN [proc EXCEPT !.phase = "return"]
                    ELSE [proc EXCEPT !.todo = scripts, !.i = 1, !.phase = "script"]
    /\ UNCHANGED <<cache, netCalls, disk, events, tests>>
    /\ Unverified

\* The next test script; the exception follows the last one
ScriptStep ==
    /\ proc.status = "running"
    /\ proc.phase = "script"
    /\ \E ok \in BOOLEAN :
        LET ran == Append(tests.ran, [script |-> proc.todo[proc.i],
                                      passed |-> run_async_profiler_test(ok)])
            failed == \E k \in 1..Len(ran) : ~ran[k].passed
        IN  /\ tests' = [tests EXCEPT !.ran = ran]
            /\ proc' = CASE tests_verdict(proc.i, Len(proc.todo), failed) = "next" ->
                                [proc EXCEPT !.i = @ + 1]
                         [] tests_verdict(proc.i, Len(proc.todo), failed) = "raise" ->
                                Failed(proc, "Some async-profiler tests failed")
                         [] OTHER -> [proc EXCEPT !.phase = "return"]
    /\ UNCHANGED <<cache, netCalls, disk, events>>
    /\ Unverified

NextVerify ==
    \/ ParseCliArgs
    \/ RunTest
    \/ PlatformsToCheck
    \/ CheckStep
    \/ RecheckStep
    \/ AllStep
    \/ SuiteStart
    \/ ScriptStep
    \/ Finish

SpecVerify == InitVerify /\ [][NextVerify]_vars

----------------------------------------------------------------------------
(* deploy_maven and deploy_github.  Maven Central is the set of the        *)
(* artifacts published there, each with its version; GitHub maps the tag   *)
(* of each release of ap-loader to its title, its notes and its assets.    *)

\* RELEASE_NOTES, without the backquotes of its Markdown
RELEASE_NOTES ==
    "- AsyncProfiler.isSupported() now returns false if the OS is not supported by any async-profiler binary, fixes #5"

\* f"{release}-{SUB_VERSION}{p_suffix}": the version prepare_poms writes
\* into the poms, and with it the version mvn deploys
pom_version(release, snapshot) ==
    release \o "-" \o ToString(SUB_VERSION) \o (IF snapshot THEN "-SNAPSHOT" ELSE "")

\* The two files prepare_poms writes: pom{suffix}.xml and pom_all{suffix}.xml
pom_files(release, snapshot) ==
    LET suffix == "-" \o release \o (IF snapshot THEN "-SNAPSHOT" ELSE "")
    IN  <<"pom" \o suffix \o ".xml", "pom_all" \o suffix \o ".xml">>

\* prepare_poms(release, platform, snapshot): each pom is written from its
\* template, pom.xml first; a template that is missing raises
prepare_poms(h, release, platform, snapshot) ==
    LET files == pom_files(release, snapshot)
    IN  IF "pom" \notin h.templates
        THEN [hub |-> h, status |-> "FileNotFoundError"]
        ELSE IF "pom_all" \notin h.templates
        THEN [hub |-> [h EXCEPT !.poms = @ \cup {files[1]}], status |-> "FileNotFoundError"]
        ELSE [hub |-> [h EXCEPT !.poms = @ \cup {files[1], files[2]}], status |-> "ok"]

\* An __exit__ that forgets the second pom
PreparedPOMs_exit_first(poms, pom, pom_all) == poms \ {pom}

\* PreparedPOMs.__exit__: os.remove(self.pom); os.remove(self.pom_all)
PreparedPOMs_exit(poms, pom, pom_all) == (poms \ {pom}) \ {pom_all}

\* An artifact in Maven Central
Artifact(platform, version) == [artifactId |-> "ap-loader-" \o platform, version |-> version]

\* mvn ... -f {pom} clean deploy
mvn_deploy(h, release, platform, snapshot, ok) ==
    IF ok
    THEN [h EXCEPT !.registry = @ \cup {Artifact(platform, pom_version(release, snapshot))}]
    ELSE h

\* A deploy_maven_platform that raises only if the replay failed too
deploy_maven_platform_forgiving(h, release, platform, snapshot, mvn_ok, replay_ok) ==
    LET files == pom_files(release, snapshot)
        prepared == prepare_poms(h, release, platform, snapshot)
        first == mvn_deploy(prepared.hub, release, platform, snapshot, mvn_ok)
        replayed == mvn_deploy(first, release, platform, snapshot, replay_ok)
        after == IF mvn_ok THEN first ELSE replayed
        left == [after EXCEPT !.poms = PreparedPOMs_exit(@, files[1], files[2])]
        call == [platform |-> platform, snapshot |-> snapshot,
                 version |-> pom_version(release, snapshot)]
    IN  IF prepared.status # "ok"
        THEN [hub |-> [prepared.hub EXCEPT !.deployed =
                          Append(@, call @@ [publish |-> "none", replay |-> "none",
                                            poms |-> prepared.hub.poms])],
              status |-> prepared.status, events |-> <<>>]
        ELSE [hub |-> [left EXCEPT !.deployed =
                          Append(@, call @@ [publish |-> IF mvn_ok THEN "ok" ELSE "failed",
                                            replay |-> IF mvn_ok THEN "none"
                                                       ELSE IF replay_ok THEN "ok" ELSE "failed",
                                            poms |-> left.poms])],
              status |-> IF mvn_ok \/ replay_ok THEN "ok" ELSE "CalledProcessError",
              events |-> IF mvn_ok THEN <<Event("mvn-deploy", platform, TRUE)>>
                         ELSE <<Event("mvn-deploy", platform, FALSE),
                                Event("os.system", platform, replay_ok)>>]

\* deploy_maven_platform(release, platform, snapshot): the poms are
\* prepared, mvn deploys with the pom of the platform, a deploy that exits
\* non-zero is run once more through os.system and its exception raised
\* again, and __exit__ removes the poms on the way out.  The call is
\* recorded with the outcome of the deploy, that of the replay, and the
\* poms there are when it is over.
deploy_maven_platform(h, release, platform, snapshot, mvn_ok, replay_ok) ==
    LET files == pom_files(release, snapshot)
        prepared == prepare_poms(h, release, platform, snapshot)
        first == mvn_deploy(prepared.hub, release, platform, snapshot, mvn_ok)
        replayed == mvn_deploy(first, release, platform, snapshot, replay_ok)
        after == IF mvn_ok THEN first ELSE replayed
        left == [after EXCEPT !.poms = PreparedPOMs_exit(@, files[1], files[2])]
        call == [platform |-> platform, snapshot |-> snapshot,
                 version |-> pom_version(release, snapshot)]
    IN  IF prepared.status # "ok"
        THEN [hub |-> [prepared.hub EXCEPT !.deployed =
                          Append(@, call @@ [publish |-> "none", replay |-> "none",
                                            poms |-> prepared.hub.poms])],
              status |-> prepared.status, events |-> <<>>]
        ELSE [hub |-> [left EXCEPT !.deployed =
                          Append(@, call @@ [publish |-> IF mvn_ok THEN "ok" ELSE "failed",
                                            replay |-> IF mvn_ok THEN "none"
                                                       ELSE IF replay_ok THEN "ok" ELSE "failed",
                                            poms |-> left.poms])],
              status |-> execute(mvn_ok),
              events |-> IF mvn_ok THEN <<Event("mvn-deploy", platform, TRUE)>>
                         ELSE <<Event("mvn-deploy", platform, FALSE),
                                Event("os.system", platform, replay_ok)>>]

\* The platforms deploy_maven deploys, in its order: the loop, then "all"
deploy_order(platforms) == platforms \o <<"all">>

\* The snapshot argument each command of cli() deploys with
snapshot_of(command) == command # "deploy_release"

\* release["html_url"], release["name"] and release["body"] of the API's
\* release object
html_url(rel) ==
    "https://github.com/jvm-profiling-tools/async-profiler/releases/tag/" \o rel.tag_name

release_name(rel) == "Async-profiler " \o rel.tag_name

get_release_info(rel) == "Changes of " \o rel.tag_name

\* get_changelog(release): the text made of SUB_VERSION, RELEASE_NOTES, the
\* link to the upstream release and its body
get_changelog(rel) ==
    [version |-> SUB_VERSION, notes |-> RELEASE_NOTES, url |-> html_url(rel),
     body |-> get_release_info(rel)]

\* f"{release}-{SUB_VERSION}": the tag of gh release create, edit and upload
gh_tag(release) == release \o "-" \o ToString(SUB_VERSION)

\* The name a jar is attached under, and what a jar in releases holds
asset_name(platform) == "ap-loader-" \o platform \o ".jar"

jar_content(h, platform, release) == [file |-> Jar(platform, release), build |-> h.build]

\* The copies in the temporary directory: each jar under its asset name
staged(h, release, platforms) ==
    [n \in { asset_name(p) : p \in Range(platforms) } |->
        jar_content(h, CHOOSE p \in Range(platforms) : asset_name(p) = n, release)]

\* What deploy_github supplies: the title, the notes, the jars and the flags
supplied(h, release, rel, is_latest, platforms) ==
    [title |-> "Loader for " \o release \o " (v" \o ToString(SUB_VERSION) \o "): "
                    \o release_name(rel),
     notes |-> get_changelog(rel),
     assets |-> staged(h, release, platforms),
     latest |-> is_latest,
     prerelease |-> rel.prerelease]

\* gh release create: it fails when gh cannot do its work (ok) and when
\* the tag has a release
gh_create(g, tag, new, ok) ==
    IF ok /\ tag \notin DOMAIN g
    THEN [github |-> (tag :> new) @@ g, ok |-> TRUE]
    ELSE [github |-> g, ok |-> FALSE]

\* gh release edit -F ... -t ... [--latest] [--prerelease]: the notes and
\* the title are replaced, a flag that is given is set
gh_edit(g, tag, new, ok) ==
    IF ok /\ tag \in DOMAIN g
    THEN [github |-> [g EXCEPT ![tag] = [@ EXCEPT !.title = new.title, !.notes = new.notes,
                                                   !.latest = @ \/ new.latest,
                                                   !.prerelease = @ \/ new.prerelease]],
          ok |-> TRUE]
    ELSE [github |-> g, ok |-> FALSE]

\* A gh release upload without --clobber: an asset that is there makes it fail
gh_upload_keep(g, tag, new, ok) ==
    IF ok /\ tag \in DOMAIN g /\ DOMAIN new.assets \cap DOMAIN g[tag].assets = {}
    THEN [github |-> [g EXCEPT ![tag] = [@ EXCEPT !.assets = new.assets @@ @]], ok |-> TRUE]
    ELSE [github |-> g, ok |-> FALSE]

\* gh release upload ... --clobber: each jar is attached, in place of the
\* asset of its name if there is one
gh_upload(g, tag, new, ok) ==
    IF ok /\ tag \in DOMAIN g
    THEN [github |-> [g EXCEPT ![tag] = [@ EXCEPT !.assets = new.assets @@ @]], ok |-> TRUE]
    ELSE [github |-> g, ok |-> FALSE]

\* "gh release edit ...; gh release upload ... --clobber" in one shell: the
\* upload runs whatever the edit did, and its exit status is the shell's
gh_edit_upload(g, tag, new, edit_ok, upload_ok) ==
    LET edited == gh_edit(g, tag, new, edit_ok)
        uploaded == gh_upload(edited.github, tag, new, upload_ok)
    IN  [github |-> uploaded.github, ok |-> uploaded.ok,
         edit |-> edited.ok, upload |-> uploaded.ok]

\* What gh can do in the five commands deploy_github may run: the create,
\* the edit and the upload of the fallback, the same two run by os.system
GhOutcomes == [create : BOOLEAN, edit : BOOLEAN, upload : BOOLEAN,
               edit2 : BOOLEAN, upload2 : BOOLEAN]

\* A result of a gh command in the record of a deploy_github call
Done(ran, ok) == IF ~ran THEN "none" ELSE IF ok THEN "ok" ELSE "failed"

\* deploy_github(release) from the with block on, rel being the release
\* get_release gave and platforms get_release_platforms(release) + ["all"]:
\* the jars are copied, gh release create runs; if it exits non-zero the
\* edit and the upload run, and if their shell exits non-zero os.system
\* runs them once more, whose exit status nothing reads.  The call is
\* recorded with what it supplied, how each command ended, and whether gh
\* could do the work of the edit and the upload.
deploy_github(h, d, release, rel, is_latest, platforms, gh) ==
    LET tag == gh_tag(release)
        new == supplied(h, release, rel, is_latest, platforms)
        missing == \E k \in 1..Len(platforms) : Jar(platforms[k], release) \notin d.jars
        created == gh_create(h.github, tag, new, gh.create)
        fallback == gh_edit_upload(created.github, tag, new, gh.edit, gh.upload)
        replay == gh_edit_upload(fallback.github, tag, new, gh.edit2, gh.upload2)
        after == IF created.ok THEN created.github
                 ELSE IF fallback.ok THEN fallback.github
                 ELSE replay.github
        call == [tag |-> tag, existed |-> tag \in DOMAIN h.github, supplied |-> new,
                 create |-> Done(TRUE, created.ok),
                 edit |-> Done(~created.ok, fallback.edit),
                 upload |-> Done(~created.ok, fallback.upload),
                 gh |-> Done(~created.ok, gh.edit /\ gh.upload),
                 replay |-> Done(~created.ok /\ ~fallback.ok, replay.ok)]
    IN  IF missing
        THEN [hub |-> h, status |-> "FileNotFoundError", events |-> <<>>]
        ELSE [hub |-> [h EXCEPT !.github = after, !.gh = Append(@, call)],
              status |-> "ok",
              events |-> <<Event("gh-create", tag, created.ok)>>
                    \o (IF created.ok THEN <<>>
                        ELSE <<Event("gh-edit-upload", tag, fallback.ok)>>)
                    \o (IF created.ok \/ fallback.ok THEN <<>>
                        ELSE <<Event("os.system", tag, replay.ok)>>)]

\* A release of ap-loader that an earlier deployment of build 0 left on
\* GitHub under the tag of the release
Earlier(release, platforms) ==
    [title |-> "Loader for " \o release,
     notes |-> [version |-> SUB_VERSION, notes |-> "", url |-> "", body |-> ""],
     assets |-> [n \in { asset_name(p) : p \in Range(platforms) } |->
                    [file |-> n, build |-> 0]],
     latest |-> FALSE,
     prerelease |-> FALSE]

\* The command lines of the deploy commands
DeployLines ==
    { <<c, "2.9">> : c \in {"deploy_mvn", "deploy_gh", "deploy", "deploy_release"} }
        \cup { <<"deploy_gh">>, <<"deploy", "deploy_release", "2.9">>,
               <<"deploy_gh", "deploy_gh", "2.8.3">> }

InitDeploy ==
    /\ now = 0
    /\ ticks = 0
    /\ remote = ServedList
    /\ cache = urlretrieve(make_cache_dir(NoCache), 0, "ok", ServedList).cache
    /\ netCalls = 0
    /\ calls = <<>>
    /\ releases = <<>>
    /\ answer = [op |-> "none"]
    /\ proc \in { [NoProc EXCEPT !.args = a, !.status = "start"] : a \in DeployLines }
    /\ disk \in {EmptyDisk, Checkout("2.9", ServedList)}
    /\ events = <<>>
    /\ atStart = NoSnapshot
    /\ tests = NoTests
    /\ hub \in { [NoHub EXCEPT !.templates = t, !.github = g] :
                    t \in {{"pom", "pom_all"}, {"pom"}},
                    g \in {<<>>, gh_tag("2.9") :> Earlier("2.9", <<"linux-x64", "macos", "all">>)} }

Undeployed == UNCHANGED <<now, ticks, remote, calls, releases, answer, tests>>

\* deploy_mvn, deploy and deploy_release, up to the platform list of
\* deploy_maven
StartMaven ==
    /\ AtCommand({"deploy_mvn", "deploy", "deploy_release"})
    /\ hub.stage = ""
    /\ \E net \in NetOutcomes :
        LET r == get_releases(cache, now, net, remote)
            platforms == get_release_platforms(proc.release, r.value)
            started == [proc EXCEPT !.idx = @ + 1]
        IN  /\ cache' = r.cache
            /\ netCalls' = netCalls + r.requests
            /\ events' = MetaEvents(r)
            /\ proc' = IF r.outcome # "ok" THEN Failed(started, r.outcome)
                       ELSE IF platforms.status = "exit"
                       THEN NotFound(started, platforms.stderr)
                       ELSE IF platforms.status # "ok" THEN Failed(started, platforms.status)
                       ELSE [started EXCEPT !.todo = deploy_order(platforms.value), !.i = 1,
                                            !.phase = "maven"]
    /\ atStart' = Snapshot
    /\ UNCHANGED <<disk, hub>>
    /\ Undeployed

\* The next deploy_maven_platform of deploy_maven; deploy and
\* deploy_release go on to deploy_github
MavenStep ==
    /\ proc.status = "running"
    /\ proc.phase = "maven"
    /\ \E mvn_ok \in BOOLEAN, replay_ok \in BOOLEAN :
        LET r == deploy_maven_platform(hub, proc.release, proc.todo[proc.i],
                                       snapshot_of(proc.commands[proc.idx]), mvn_ok, replay_ok)
        IN  /\ hub' = r.hub
            /\ events' = events \o r.events
            /\ proc' = IF r.status # "ok" THEN Failed(proc, r.status)
                       ELSE IF proc.i < Len(proc.todo) THEN [proc EXCEPT !.i = @ + 1]
                       ELSE IF proc.commands[proc.idx] = "deploy_mvn"
                       THEN [proc EXCEPT !.phase = "return"]
                       ELSE [proc EXCEPT !.phase = "github"]
    /\ UNCHANGED <<cache, netCalls, disk, atStart>>
    /\ Undeployed

\* deploy_github up to the with block: the changelog, the flags, and
\* build_release up to its asset list if releases lacks the "all" jar
StartGithub ==
    /\ hub.stage = ""
    /\ \/ AtCommand({"deploy_gh"})
       \/ proc.status = "running" /\ proc.phase = "github"
    /\ \E net \in NetOutcomes :
        LET r == get_releases(cache, now, net, remote)
            rel == get_release(proc.release, r.value)
            recent == get_most_recent_release(r.value)
            urls == get_release_asset_urls(proc.release, r.value)
            built == Jar("all", proc.release) \in disk.jars
            started == IF proc.phase = "github" THEN proc ELSE [proc EXCEPT !.idx = @ + 1]
            goes == r.outcome = "ok" /\ rel.status = "ok" /\ recent.status = "ok"
        IN  /\ cache' = r.cache
            /\ netCalls' = netCalls + r.requests
            /\ events' = (IF proc.phase = "github" THEN events ELSE <<>>) \o MetaEvents(r)
            /\ atStart' = IF proc.phase = "github" THEN atStart ELSE Snapshot
            /\ proc' = IF r.outcome # "ok" THEN Failed(started, r.outcome)
                       ELSE IF rel.status = "exit" THEN NotFound(started, rel.stderr)
                       ELSE IF recent.status # "ok" THEN Failed(started, recent.status)
                       ELSE IF built THEN [started EXCEPT !.phase = "publish"]
                       ELSE [started EXCEPT !.todo = urls.value, !.i = 1,
                                !.phase = IF urls.value = <<>> THEN "code" ELSE "assets"]
            /\ disk' = IF goes /\ ~built THEN [disk EXCEPT !.releasesDir = TRUE] ELSE disk
            /\ hub' = IF goes /\ ~built THEN [hub EXCEPT !.stage = "build"] ELSE hub
    /\ Undeployed

\* The with block of deploy_github, reached at once or when build_release
\* has returned
PublishStep ==
    /\ proc.status = "running"
    /\ \/ proc.phase = "publish"
       \/ proc.phase = "return" /\ hub.stage = "build"
    /\ \E net \in NetOutcomes :
        LET r == get_releases(cache, now, net, remote)
            rel == get_release(proc.release, r.value)
            recent == get_most_recent_release(r.value)
            platforms == get_release_platforms(proc.release, r.value)
            idle == [hub EXCEPT !.stage = ""]
        IN  /\ cache' = r.cache
            /\ netCalls' = netCalls + r.requests
            /\ IF r.outcome # "ok"
               THEN /\ proc' = Failed(proc, r.outcome)
                    /\ hub' = idle
                    /\ events' = events \o MetaEvents(r)
               ELSE IF rel.status # "ok" \/ recent.status # "ok" \/ platforms.status # "ok"
               THEN /\ proc' = IF rel.status = "exit" THEN NotFound(proc, rel.stderr)
                               ELSE Failed(proc, "IndexError")
                    /\ hub' = idle
                    /\ events' = events \o MetaEvents(r)
               ELSE \E gh \in GhOutcomes :
                    LET d == deploy_github(idle, disk, proc.release, rel.value,
                                           proc.release = recent.value,
                                           platforms.value \o <<"all">>, gh)
                    IN  /\ proc' = IF d.status # "ok" THEN Failed(proc, d.status)
                                   ELSE [proc EXCEPT !.phase = "return"]
                        /\ hub' = d.hub
                        /\ events' = events \o MetaEvents(r) \o d.events
    /\ UNCHANGED <<disk, atStart>>
    /\ Undeployed

\* The loop of cli() is through, no deploy_github waiting for its build
DeployFinish ==
    /\ hub.stage = ""
    /\ Finish

NextDeploy ==
    \/ ParseCliArgs
    \/ StartMaven
    \/ MavenStep
    \/ StartGithub
    \/ AssetStep
    \/ CodeStep
    \/ PlatformsStep
    \/ BuildStep
    \/ PublishStep
    \/ DeployFinish

SpecDeploy == InitDeploy /\ [][NextDeploy]_vars

----------------------------------------------------------------------------
(* clear after the other commands: cli() runs clear, once or several times *)
(* in a row, in a checkout that downloads, builds and tests have filled.   *)

\* The checkouts: what a download leaves, whatever the network and the
\* unpacking did for its first archive; what a build leaves; what
\* build_tests and a basic execution check leave after a build
Checkouts ==
    LET versions == {"2.9", "2.8.3"}
        first(v) == get_release_asset_urls(v, ServedList).value[1]
        downloads == { download_release_url(EmptyDisk, v, first(v), net, unpack_ok).disk :
                            v \in versions, net \in NetOutcomes, unpack_ok \in BOOLEAN }
        builds == { Checkout(v, ServedList) : v \in versions }
        tested(v, up) == build_tests(Checkout(v, ServedList), v, up,
                                     CHOOSE l \in Orders(up) : TRUE, TRUE, TRUE).disk
        folders == { tested(v, up) : v \in versions, up \in TestFolders }
        checks == { test_release_basic_execution(tested(v, up), v, "all", out).disk :
                        v \in versions, up \in TestFolders, out \in CheckOutcomes }
    IN  downloads \cup builds \cup folders \cup checks

\* The command lines: clear, up to MaxCommands times
ClearLines == { [k \in 1..n |-> "clear"] : n \in 1..MaxCommands }

InitClear ==
    /\ now = 0
    /\ ticks = 0
    /\ remote = ServedList
    /\ cache = urlretrieve(make_cache_dir(NoCache), 0, "ok", ServedList).cache
    /\ netCalls = 0
    /\ calls = <<>>
    /\ releases = <<>>
    /\ answer = [op |-> "none"]
    /\ proc \in { [NoProc EXCEPT !.args = a, !.status = "start"] : a \in ClearLines }
    /\ disk \in Checkouts
    /\ events = <<>>
    /\ atStart = NoSnapshot
    /\ tests = NoTests
    /\ hub = NoHub

NextClear ==
    \/ ParseCliArgs
    \/ RunClear
    \/ Finish

SpecClear == InitClear /\ [][NextClear]_vars

----------------------------------------------------------------------------
(* Claims about the metadata cache *)

\* The TTL the cache is specified to have: 24 hours, in seconds
Day == 24 * 60 * 60

\* A call found no cached file, or one whose modification time + TTL <= now
Stale(call) == ~call.before.exists \/ call.before.mtime + Day <= call.t

\* The cache file, the directory set aside: what a caller can observe of it
File(c) == [exists |-> c.exists, mtime |-> c.mtime, whole |-> c.whole, content |-> c.content]

\* C1: a download_json call makes a network request, which when it succeeds
\* overwrites the cached file with what the API serves, if and only if no
\* cached file exists or the file's modification time + 24 hours <= now; any
\* other call makes no request, leaves the file as it is and returns what the
\* file holds; so a call that follows a call that returned, within the TTL
\* of the file, makes no request and returns the same content, whatever the
\* API serves by then.
C1_FetchIffMissingOrStale ==
    /\ \A i \in 1..Len(calls) :
        LET call == calls[i]
        IN  /\ call.requests = (IF Stale(call) THEN 1 ELSE 0)
            /\ (Stale(call) /\ call.net = "ok") =>
                    /\ File(call.after) = [exists |-> TRUE, mtime |-> call.t,
                                           whole |-> TRUE, content |-> call.served]
                    /\ call.outcome = "ok"
                    /\ call.value = call.served
            /\ ~Stale(call) =>
                    /\ File(call.after) = File(call.before)
                    /\ call.before.whole =>
                            call.outcome = "ok" /\ call.value = call.before.content
    /\ \A i \in 1..(Len(calls) - 1) :
        (calls[i].outcome = "ok" /\ calls[i + 1].t < calls[i].after.mtime + Day) =>
            /\ calls[i + 1].requests = 0
            /\ calls[i + 1].outcome = "ok"
            /\ calls[i + 1].value = calls[i].value

\* Reached: a call exactly at the end of the TTL fetched again, and a later
\* call inside the new window was answered from the file although the API
\* served something else by then
C1_Witness ==
    \E i \in 1..Len(calls), j \in 1..Len(calls) :
        /\ calls[i].before.exists
        /\ calls[i].t = calls[i].before.mtime + Day
        /\ calls[i].requests = 1
        /\ calls[i].outcome = "ok"
        /\ j = i + 1
        /\ calls[j].t > calls[i].t
        /\ calls[j].requests = 0
        /\ calls[j].served # calls[i].served
        /\ calls[j].value = calls[i].value

\* C2: when download_json has to refresh (no file, or a stale one) and the
\* request fails, the call ends in that error after exactly one request: it
\* does not retry and returns no value.
C2_FailedRefreshPropagates ==
    \A i \in 1..Len(calls) :
        (Stale(calls[i]) /\ calls[i].net # "ok") =>
            /\ calls[i].requests = 1
            /\ calls[i].outcome = "URLError"
            /\ calls[i].value = <<>>

\* Reached: failed refreshes of a missing and of a stale, readable file
C2_Witness ==
    /\ \E i \in 1..Len(calls) :
        ~calls[i].before.exists /\ calls[i].net # "ok" /\ calls[i].outcome = "URLError"
    /\ \E i \in 1..Len(calls) :
        /\ calls[i].before.exists /\ calls[i].before.whole
        /\ Stale(calls[i]) /\ calls[i].net # "ok" /\ calls[i].outcome = "URLError"

\* C3 as stated: with a cached entry, fresh or stale, a failing network does
\* not make download_json end in an error, and the entry is present afterwards.
C3_NoErrorWithCachedEntry ==
    \A i \in 1..Len(calls) :
        (calls[i].before.exists /\ calls[i].net # "ok") =>
            /\ calls[i].outcome # "URLError"
            /\ calls[i].after.exists

\* C3, amended: with a fresh entry download_json makes no request, so a
\* failing network cannot make it end in an error; with a stale entry the
\* failed fetch ends the call in that error.  Either way a cache file is
\* present afterwards: it is never deleted, and a request that fails before
\* any data arrives leaves the stale entry exactly as it was.
C3_StaleEntryFailsButIsKept ==
    \A i \in 1..Len(calls) :
        (calls[i].before.exists /\ calls[i].net # "ok") =>
            /\ calls[i].after.exists
            /\ ~Stale(calls[i]) =>
                    /\ calls[i].requests = 0
                    /\ calls[i].outcome # "URLError"
                    /\ File(calls[i].after) = File(calls[i].before)
            /\ Stale(calls[i]) => calls[i].outcome = "URLError"
            /\ (Stale(calls[i]) /\ calls[i].net = "unreachable") =>
                    File(calls[i].after) = File(calls[i].before)

\* Reached: a failing network met a fresh entry in one call and a stale,
\* readable entry in another
C3_Witness ==
    /\ \E i \in 1..Len(calls) :
        /\ calls[i].before.exists /\ ~Stale(calls[i]) /\ calls[i].net # "ok"
        /\ calls[i].outcome = "ok"
    /\ \E i \in 1..Len(calls) :
        /\ calls[i].before.exists /\ calls[i].before.whole /\ Stale(calls[i])
        /\ calls[i].net = "unreachable" /\ calls[i].outcome = "URLError"
        /\ calls[i].after.exists

----------------------------------------------------------------------------
(* Claims about the release resolver *)

VersionOf(r) == DropFirst(r.tag_name)

\* The positions of the releases whose version starts with "2."
Current == { i \in 1..Len(releases) : StartsWith(VersionOf(releases[i]), "2.") }

\* ... and whose tag ends in a digit (v2.0-rc does not)
CurrentFinal ==
    { i \in Current : IsDigit(Char(releases[i].tag_name, Len(releases[i].tag_name))) }

Min(S) == CHOOSE i \in S : \A j \in S : i <= j

\* C4 as stated: get_most_recent_release returns the first release, in the
\* order of the list, whose version starts with "2.", for every list that
\* holds such a release.
C4_FirstCurrentRelease ==
    (answer.op = "get_most_recent_release" /\ Current # {}) =>
        answer.result = Ok(VersionOf(releases[Min(Current)]))

\* C4, amended: get_most_recent_release returns the first release, in the
\* order of the list (no re-sorting), whose version starts with "2." and
\* whose tag ends in a digit, for every list that holds such a release; a
\* tag such as v2.0-rc is passed over.
C4_FirstCurrentFinalRelease ==
    (answer.op = "get_most_recent_release" /\ CurrentFinal # {}) =>
        answer.result = Ok(VersionOf(releases[Min(CurrentFinal)]))

\* Reached: asked of a list that has 2.8.3 before 2.9, the answer is 2.8.3
C4_Witness ==
    /\ answer.op = "get_most_recent_release"
    /\ releases = <<Rel283, Rel29>>
    /\ answer.result = Ok("2.8.3")

\* C6: the resolver matches the tag only among the releases left after the
\* legacy tags (versions starting with "1.") are filtered out: asking for a
\* legacy version never returns that release and ends in the not-found exit.
C6_LegacyVersionNotResolved ==
    (answer.op = "get_release" /\ StartsWith(answer.release, "1.")) =>
        answer.result.status = "exit"

Hyphens(s) == Cardinality({ i \in 1..Len(s) : Char(s, i) = "-" })
Dots(s) == Cardinality({ i \in 1..Len(s) : Char(s, i) = "." })

\* C7 as stated: for every asset file name-version-platform.ext,
\* release_platform_for_url returns the platform, and the release with the
\* assets ap-2.8.3-linux-x64.tar.gz and ap-2.8.3-macos.zip resolves to the
\* platforms linux-x64 and macos.
C7_PlatformOfAnyName ==
    /\ answer.op = "release_platform_for_url" => answer.result = Ok(answer.platform)
    /\ (answer.op = "get_release_platforms" /\ answer.release = "2.8.3"
            /\ releases = <<RelScenario>>) =>
        answer.result.status = "ok" /\ Range(answer.result.value) = {"linux-x64", "macos"}

\* C7, amended: for every asset file name-version-platform.ext in which name
\* and version together hold exactly one "-" (async-profiler-2.9-...) and
\* the platform holds no ".", release_platform_for_url returns the platform;
\* the release with the assets async-profiler-2.9-linux-x64.tar.gz and
\* async-profiler-2.9-macos.zip resolves to the platforms linux-x64, macos.
C7_PlatformOfAsyncProfilerName ==
    /\ (answer.op = "release_platform_for_url"
            /\ Hyphens(answer.name) + Hyphens(answer.version) = 1
            /\ Dots(answer.platform) = 0) =>
        answer.result = Ok(answer.platform)
    /\ (answer.op = "get_release_platforms" /\ answer.release = "2.9"
            /\ Rel29 \in Range(releases)) =>
        answer.result = Ok(<<"linux-x64", "macos">>)

\* Reached: the platform of async-profiler-2.8.3-linux-musl-x64.tar.gz
C7_Witness ==
    /\ answer.op = "release_platform_for_url"
    /\ answer.name = "async-profiler"
    /\ answer.version = "2.8.3"
    /\ answer.platform = "linux-musl-x64"
    /\ answer.ending = ".tar.gz"
    /\ answer.result = Ok("linux-musl-x64")

----------------------------------------------------------------------------
(* Claims about the commands of cli() *)

\* The command that is running, or that ran last
Command == IF proc.idx >= 1 THEN proc.commands[proc.idx] ELSE ""

\* The release asked for matches no tag of the list the API serves
Unmatched == \A k \in 1..Len(remote) : remote[k].tag_name # "v" \o proc.release

\* A command that resolves the release has loaded the release list
Resolving ==
    /\ Command \in {"download", "build"}
    /\ proc.error \notin {"URLError", "JSONDecodeError"}

\* What the run has come to once such a command met a version without a tag
C5_ExitsOnUnknownVersion ==
    (Resolving /\ Unmatched) =>
        /\ proc.status = "exit"
        /\ proc.code = 1
        /\ proc.error = "release not found"
        /\ proc.stderr = <<"2.9", "2.8.3">>
        /\ Requests(events) = netCalls - atStart.netCalls
        /\ \A k \in 1..Len(events) : events[k].arg = ReleasesUrl
        /\ disk = IF Command = "build"
                  THEN [atStart.disk EXCEPT !.releasesDir = TRUE]
                  ELSE atStart.disk

\* C5: resolving a version that matches no release tag reports the error
\* with the list of the valid versions and ends the command in exit status
\* 1; the command has had no effect but the release list it loaded (and the
\* releases directory build makes first), and nothing runs after the exit:
\* no command that follows on the command line is started.
C5_UnknownVersionIsFatal ==
    /\ [](C5_ExitsOnUnknownVersion)
    /\ [][proc.status = "exit" => vars' = vars]_vars

\* Reached: build ended in the not-found exit with a command left to run
C5_Witness ==
    /\ proc.status = "exit"
    /\ proc.error = "release not found"
    /\ proc.release = "2.7"
    /\ Command = "build"
    /\ proc.idx < Len(proc.commands)

\* The archives of a release in ap-releases, in the order of its assets,
\* with the tool that unpacks each
ArchivesOf(release) ==
    CASE release = "2.9" ->
            <<Event("tar", "async-profiler-2.9-linux-x64.tar.gz", TRUE),
              Event("unzip", "async-profiler-2.9-macos.zip", TRUE)>>
      [] release = "2.8.3" ->
            <<Event("tar", "async-profiler-2.8.3-linux-musl-x64.tar.gz", TRUE),
              Event("unzip", "async-profiler-2.8.3-macos.zip", TRUE)>>
      [] release = "1.8.8" ->
            <<Event("tar", "async-profiler-1.8.8-linux-x64.tar.gz", TRUE)>>
      [] OTHER -> <<>>

SnapshotOf(release) == Event("unzip", "async-profiler-" \o release \o "-code.zip", TRUE)

\* When the command started the release list was cached and fresh and all
\* archives of the release were on disk
AllDownloaded ==
    /\ Command \in {"download", "build"}
    /\ ~Unmatched
    /\ atStart.cache.exists /\ atStart.cache.whole
    /\ atStart.now < atStart.cache.mtime + Day
    /\ \A e \in Range(ArchivesOf(proc.release)) \cup {SnapshotOf(proc.release)} :
            e.arg \in atStart.disk.archives

\* The command is in download_release, or download_release has returned
Downloaded ==
    /\ proc.status \in {"running", "done"}
    /\ \/ Command = "build" /\ proc.phase = "platforms"
       \/ Command = "download" /\ proc.phase = "return"

InDownload ==
    \/ Command \in {"download", "build"} /\ proc.phase \in {"assets", "code"}
    \/ Downloaded

Unpackings == LET Tool(e) == e.op \in {"tar", "unzip"} IN SelectSeq(events, Tool)

\* C8 as stated: download_release run again with all archives on disk and
\* the release list fresh makes no network request and unpacks no platform
\* archive: it unpacks the source snapshot only.
C8_NothingUnpackedAgain ==
    (AllDownloaded /\ Downloaded) =>
        /\ Requests(events) = 0
        /\ netCalls = atStart.netCalls
        /\ Unpackings = <<SnapshotOf(proc.release)>>

\* C8, amended: download_release run again with all archives on disk and
\* the release list fresh makes no network request, but it unpacks every
\* platform archive again, in the order of the assets, and then the source
\* snapshot (an unpacking that fails ends it).
C8_NoRequestButUnpackedAgain ==
    /\ (AllDownloaded /\ InDownload) =>
            Requests(events) = 0 /\ netCalls = atStart.netCalls
    /\ (AllDownloaded /\ Downloaded) =>
            Unpackings = ArchivesOf(proc.release) \o <<SnapshotOf(proc.release)>>

\* Reached: a second download of 2.9 has returned
C8_Witness ==
    /\ AllDownloaded
    /\ Downloaded
    /\ Command = "download"
    /\ proc.release = "2.9"
    /\ proc.idx = 2

\* The platforms of a release
PlatformsOf(release) ==
    CASE release = "2.9" -> <<"linux-x64", "macos">>
      [] release = "2.8.3" -> <<"linux-musl-x64", "macos">>
      [] release = "1.8.8" -> <<"linux-x64">>
      [] release = "2.7" -> <<"linux-x64", "linux-arm64", "macos">>
      [] OTHER -> <<>>

Builds == LET Tool(e) == e.op \in {"mvn", "copy"} IN SelectSeq(events, Tool)

\* mvn and copy for each of the platforms, in their order
BuildsOf(platforms) ==
    [k \in 1..(2 * Len(platforms)) |->
        Event(IF k % 2 = 1 THEN "mvn" ELSE "copy", platforms[(k + 1) \div 2], TRUE)]

Built ==
    /\ proc.status \in {"running", "done"}
    /\ Command = "build"
    /\ proc.phase = "return"

\* C9: a build_release that completes without error has called the build
\* tool once for each platform of the release and then once for "all", each
\* call followed by the copy of its jar before the next call starts, so
\* "all" is built after every platform is built and copied; the copies
\* written to the releases directory are |platforms| + 1.
C9_OneBuildPerPlatformThenAll ==
    Built =>
        /\ Builds = BuildsOf(PlatformsOf(proc.release) \o <<"all">>)
        /\ Cardinality({ k \in 1..Len(events) : events[k].op = "copy" })
                = Len(PlatformsOf(proc.release)) + 1
        /\ Cardinality(disk.jars) = Len(PlatformsOf(proc.release)) + 1
        /\ disk.jars = { "ap-loader-" \o p \o "-" \o proc.release \o "-4.jar" :
                            p \in Range(PlatformsOf(proc.release)) \cup {"all"} }

\* Reached: the build of 2.9 is through, with its three jars
C9_Witness ==
    /\ Built
    /\ proc.release = "2.9"
    /\ Cardinality(disk.jars) = 3

\* C10: a build-tool call of build_release that exits non-zero ends
\* build_release in the error at that call: it is the last call made, no
\* later platform and no "all" bundle is built, and no jar is copied for
\* the platform that failed (its jar in releases is one that was there when
\* the command started, if any).
C10_FailedBuildAborts ==
    \A k \in 1..Len(events) :
        (events[k].op = "mvn" /\ ~events[k].ok) =>
            /\ k = Len(events)
            /\ proc.status = "raised"
            /\ proc.error = "CalledProcessError"
            /\ proc.code = 1
            /\ Builds = BuildsOf(SubSeq(PlatformsOf(proc.release) \o <<"all">>, 1,
                                        (Len(Builds) - 1) \div 2))
                            \o <<events[k]>>
            /\ events[k].arg = (PlatformsOf(proc.release) \o <<"all">>)[(Len(Builds) + 1) \div 2]
            /\ Jar(events[k].arg, proc.release) \notin disk.jars \ atStart.disk.jars

\* Reached: the first of the two platform builds of 2.9 failed
C10_Witness ==
    /\ proc.status = "raised"
    /\ proc.release = "2.9"
    /\ Builds = <<Event("mvn", "linux-x64", FALSE)>>
    /\ disk.jars = {}

----------------------------------------------------------------------------
(* Claims about the test command *)

\* The checks of the platform jars made with the output ignored (the list
\* comprehension), and those made with the output shown
QuietChecks ==
    LET Quiet(c) == c.quiet /\ c.platform # "all" IN SelectSeq(tests.checks, Quiet)

LoudChecks ==
    LET Loud(c) == ~c.quiet /\ c.platform # "all" IN SelectSeq(tests.checks, Loud)

\* The platforms whose quiet check passed
Passing == { k \in 1..Len(QuietChecks) : QuietChecks[k].passed }

\* Every platform jar of the release has had its quiet check
AllChecked ==
    /\ tests.flows > 0
    /\ Len(QuietChecks) = Len(PlatformsOf(proc.release))

\* test_releases_basic_execution returned without an exception
BasicPassed ==
    /\ Command = "test"
    /\ \/ proc.status = "running" /\ proc.phase \in {"suite", "script", "return"}
       \/ proc.status = "done"
       \/ proc.status = "raised" /\ proc.error = "Some async-profiler tests failed"

\* C11: test_releases_basic_execution returns without an error only if
\* exactly one platform jar passed its check.  When none passed, the run is
\* on its way through one diagnostic check of every platform, in their
\* order, and the exception that ends them; when two or more passed, the
\* exception is raised at once, without a diagnostic check.
C11_ExactlyOnePlatformPasses ==
    /\ BasicPassed => AllChecked /\ Cardinality(Passing) = 1
    /\ AllChecked /\ Cardinality(Passing) = 0 =>
            /\ \/ proc.status = "running" /\ proc.phase \in {"diagnose", "recheck"}
               \/ proc.status = "raised"
            /\ Len(LoudChecks) <= Len(PlatformsOf(proc.release))
            /\ \A k \in 1..Len(LoudChecks) :
                    LoudChecks[k].platform = PlatformsOf(proc.release)[k]
            /\ proc.error = "None of the platform JARs works" =>
                    Len(LoudChecks) = Len(PlatformsOf(proc.release))
            /\ proc.status = "running" /\ proc.phase = "recheck" =>
                    Len(LoudChecks) = proc.i - 1
    /\ AllChecked /\ Cardinality(Passing) >= 2 =>
            /\ proc.status = "raised"
            /\ proc.error = "Multiple platform JARs work"
            /\ LoudChecks = <<>>

\* Reached: no platform of three passed, each was checked again with its
\* output shown, and the exception ended the run
C11_Witness ==
    /\ proc.release = "2.7"
    /\ AllChecked
    /\ Passing = {}
    /\ Len(LoudChecks) = 3
    /\ proc.status = "raised"
    /\ proc.error = "None of the platform JARs works"

\* The checks of the "all" jar
AllChecks == LET All(c) == c.platform = "all" IN SelectSeq(tests.checks, All)

\* C12 as stated: once the "all" jar did not pass its check and the
\* diagnostic run is over, the function has ended in the exception
C12_AllJarFailureIsFatal ==
    /\ AllChecks # <<>>
    /\ ~AllChecks[1].passed
    /\ ~(proc.status = "running" /\ proc.phase = "allagain")
    => /\ Len(AllChecks) = 2
       /\ proc.status = "raised"
       /\ proc.error = "The all JAR does not work"

\* C12: when the "all" jar does not pass its check, the check is made once
\* more with its output shown, and test_releases_basic_execution ends in
\* the exception exactly if that second check does not pass either; if it
\* passes, the function returns as after a first check that passed.
C12_AllJarCheckedAgainDecides ==
    /\ Len(AllChecks) <= 2
    /\ AllChecks # <<>> => AllChecks[1].quiet /\ Cardinality(Passing) = 1
    /\ Len(AllChecks) = 1 /\ ~AllChecks[1].passed =>
            proc.status = "running" /\ proc.phase = "allagain"
    /\ Len(AllChecks) = 2 =>
            /\ ~AllChecks[1].passed
            /\ ~AllChecks[2].quiet
            /\ AllChecks[2].passed => BasicPassed
            /\ ~AllChecks[2].passed =>
                    proc.status = "raised" /\ proc.error = "The all JAR does not work"
    /\ BasicPassed => AllChecks # <<>> /\ AllChecks[Len(AllChecks)].passed

\* Reached: the "all" jar failed its check, passed the diagnostic run, and
\* the test scripts are running
C12_Witness ==
    /\ Len(AllChecks) = 2
    /\ ~AllChecks[1].passed
    /\ AllChecks[2].passed
    /\ proc.status = "running"
    /\ proc.phase = "script"

\* The test scripts of the copied test folder
Eligible ==
    { f \in disk.testFolder :
        /\ Len(f) >= 3 /\ SubSeq(f, Len(f) - 2, Len(f)) = ".sh"
        /\ SubSeq(f, 1, 2) # "fd" }

\* run_async_profiler_tests is over: it returned or raised its exception
SuiteOver ==
    /\ Command = "test"
    /\ \/ proc.status = "done"
       \/ proc.status = "running" /\ proc.phase = "return"
       \/ proc.status = "raised" /\ proc.error = "Some async-profiler tests failed"

\* C13: run_async_profiler_tests runs every test script of the test folder
\* (.sh, not starting with "fd") exactly once, whatever the scripts before
\* it did, and raises its exception after the last script exactly if a
\* script failed.
C13_EveryScriptRunsOnce ==
    /\ \A k \in 1..Len(tests.ran) : tests.ran[k].script \in Eligible
    /\ \A j, k \in 1..Len(tests.ran) : tests.ran[j].script = tests.ran[k].script => j = k
    /\ proc.status = "running" /\ proc.phase = "script" => Len(tests.ran) = proc.i - 1
    /\ SuiteOver =>
            /\ { tests.ran[k].script : k \in 1..Len(tests.ran) } = Eligible
            /\ proc.status = "raised" <=> \E k \in 1..Len(tests.ran) : ~tests.ran[k].passed

\* Reached: the first of two scripts failed, the second ran and passed, and
\* the exception was raised after it
C13_Witness ==
    /\ Len(tests.ran) = 2
    /\ ~tests.ran[1].passed
    /\ tests.ran[2].passed
    /\ proc.status = "raised"
    /\ proc.error = "Some async-profiler tests failed"

\* The test command is over
TestOver == Command = "test" /\ proc.status \in {"done", "raised", "exit"}

\* C14: with runtime versions named in the environment, the test command
\* has run the verification flow once for each of them when it is over
C14_OneFlowPerRuntimeVersion ==
    TestOver /\ tests.javaVersions # <<>> => tests.flows = Len(tests.javaVersions)

\* C21: every basic execution check of a test run starts without the
\* profile.jfr and flamegraph.html of an earlier check in the tests
\* directory, and a check that returned True wrote both files itself.
C21_ChecksStartCleared ==
    \A k \in 1..Len(tests.checks) :
        /\ tests.checks[k].found \cap {"profile.jfr", "flamegraph.html"} = {}
        /\ tests.checks[k].passed =>
                {"profile.jfr", "flamegraph.html"} \subseteq tests.checks[k].wrote

----------------------------------------------------------------------------
(* Claims about the deploy commands *)

\* The deploy_maven_platform calls in which mvn ran
Published == LET Ran(c) == c.publish # "none" IN SelectSeq(hub.deployed, Ran)

\* C20: once a deploy_maven_platform call in which the publish command ran
\* is over, whether the command succeeded or failed and was replayed,
\* neither of the two poms written for it exists.
C20_PomsRemoved ==
    /\ \A k \in 1..Len(Published) : Published[k].poms = {}
    /\ Published # <<>> => hub.poms = {}

\* Reached: a publish command failed, was replayed, and the call is over
C20_Witness ==
    /\ Len(Published) = 2
    /\ Published[1].publish = "ok"
    /\ Published[2].publish = "failed"
    /\ Published[2].replay = "failed"
    /\ proc.status = "raised"

\* The failed publish commands among the tools of the running command
FailedPublishes == { k \in 1..Len(events) : events[k].op = "mvn-deploy" /\ ~events[k].ok }

Replays == { k \in 1..Len(events) : events[k].op = "os.system" }

\* deploy_maven has raised the exception of a publish command
PublishRaised == proc.status = "raised" /\ proc.error = "CalledProcessError"

\* C15 as stated: a failed publish is replayed once, the error is raised
\* again if the replay failed, and after a replay that succeeded the
\* deployment is not aborted
C15_SuccessfulReplayGoesOn ==
    \A k \in 1..Len(Published) :
        Published[k].publish = "failed" =>
            /\ Published[k].replay # "none"
            /\ Published[k].replay = "failed" => PublishRaised
            /\ Published[k].replay = "ok" => ~(PublishRaised /\ k = Len(Published))

\* C15: a publish command that failed is run exactly once more, through
\* os.system, right after it failed; the error is then raised again whether
\* the replay failed or succeeded, and no platform is deployed after it.  A
\* publish command that succeeded is not replayed.
C15_FailedPublishReplayedThenRaised ==
    /\ \A k \in 1..Len(Published) :
            /\ Published[k].publish = "ok" => Published[k].replay = "none"
            /\ Published[k].publish = "failed" =>
                    /\ Published[k].replay \in {"ok", "failed"}
                    /\ k = Len(Published)
                    /\ PublishRaised
    /\ \A k \in FailedPublishes :
            /\ k + 1 = Len(events)
            /\ Replays = {k + 1}
            /\ events[k + 1].arg = events[k].arg
    /\ FailedPublishes = {} => Replays \subseteq { k \in 1..Len(events) : events[k].arg = gh_tag(proc.release) }

\* Reached: the publish of the first platform failed, its replay
\* succeeded and put the artifact into Maven Central, and the exception
\* ended the deployment before the second platform
C15_Witness ==
    /\ Len(Published) = 1
    /\ Published[1].publish = "failed"
    /\ Published[1].replay = "ok"
    /\ Artifact(Published[1].platform, Published[1].version) \in hub.registry
    /\ PublishRaised

\* The commands so far that call deploy_github
GithubCommands ==
    Cardinality({ k \in 1..proc.idx : proc.commands[k] \in {"deploy_gh", "deploy", "deploy_release"} })

\* The last deploy_github got as far as gh release create, and it is the
\* deploy_github of the command that is running or ran last
Created == hub.gh # <<>> /\ Len(hub.gh) = GithubCommands

LastCreate == hub.gh[Len(hub.gh)]

\* C16: when deploy_github finds a release under its tag, no error ends
\* it: gh release create fails, the edit and the upload with --clobber
\* follow, and, gh being able to do the work of both, the release then has
\* the notes deploy_github supplied and as assets the jars it supplied, none
\* of the earlier ones.
C16_ExistingReleaseOverwritten ==
    Created /\ LastCreate.existed =>
        /\ LastCreate.create = "failed"
        /\ LastCreate.edit # "none"
        /\ LastCreate.upload # "none"
        /\ proc.status # "raised"
        /\ LastCreate.gh = "ok" =>
                /\ LastCreate.replay = "none"
                /\ hub.github[LastCreate.tag].notes = LastCreate.supplied.notes
                /\ hub.github[LastCreate.tag].title = LastCreate.supplied.title
                /\ hub.github[LastCreate.tag].assets = LastCreate.supplied.assets
                /\ \A n \in DOMAIN hub.github[LastCreate.tag].assets :
                        hub.github[LastCreate.tag].assets[n].build = hub.build

\* Reached: the release of an earlier build was there under the tag, and
\* now has the notes and the three jars of this build
C16_Witness ==
    /\ Created
    /\ LastCreate.existed
    /\ LastCreate.gh = "ok"
    /\ atStart.disk.jars # {}
    /\ proc.release = "2.9"
    /\ hub.github["2.9-4"].notes.notes = RELEASE_NOTES
    /\ DOMAIN hub.github["2.9-4"].assets =
            {"ap-loader-linux-x64.jar", "ap-loader-macos.jar", "ap-loader-all.jar"}
    /\ proc.status = "done"

\* C17: when gh release create fails and the edit and upload after it fail,
\* in the fallback and again when os.system runs them, deploy_github ends
\* in an error and the command does not complete
C17_PersistentFailureSurfaces ==
    /\ Created
    /\ LastCreate.create = "failed"
    /\ LastCreate.upload = "failed"
    /\ LastCreate.replay = "failed"
    => proc.status = "raised"

\* The identity a deployment of a release is to publish under
Identity(release, snapshot) ==
    release \o "-4" \o (IF snapshot THEN "-SNAPSHOT" ELSE "")

\* C19: every deployment to Maven Central and every deployment to GitHub
\* publishes under {release}-{SUB_VERSION}, followed by "-SNAPSHOT" exactly
\* if the command deploys a snapshot (every deploy command but
\* deploy_release)
C19_SnapshotInIdentity ==
    /\ \A k \in 1..Len(hub.deployed) :
            hub.deployed[k].version = Identity(proc.release, hub.deployed[k].snapshot)
    /\ Published # <<>> /\ Command \in {"deploy_mvn", "deploy", "deploy_release"} =>
            Published[Len(Published)].snapshot = (Command # "deploy_release")
    /\ Created => LastCreate.tag = Identity(proc.release, Command # "deploy_release")

----------------------------------------------------------------------------
(* Claims about clear *)

\* The five directories of clear() are absent
AllAbsent ==
    /\ ~disk.apReleases /\ disk.archives = {} /\ disk.partial = {} /\ disk.unpacked = {}
    /\ ~disk.releasesDir /\ disk.jars = {}
    /\ disk.target = {}
    /\ ~disk.testsDir /\ disk.testsFiles = {}
    /\ ~disk.testsCodeDir /\ disk.testFolder = {} /\ disk.classes = {} /\ disk.rewritten = {}

\* clear has just run, right after another clear
ClearedAgain ==
    /\ proc.idx >= 2
    /\ proc.commands[proc.idx] = "clear"
    /\ proc.commands[proc.idx - 1] = "clear"

\* C18: no clear raises an error, and a clear that runs right after a clear
\* leaves the directories as it found them: all five absent.
C18_ClearIdempotent ==
    /\ Command = "clear" => proc.status # "raised" /\ AllAbsent
    /\ ClearedAgain => atStart.disk = disk /\ AllAbsent

\* Reached: the second clear in a row is over, and so is cli()
C18_Witness ==
    /\ ClearedAgain
    /\ proc.idx = 2
    /\ atStart.disk = EmptyDisk
    /\ proc.status = "done"

----------------------------------------------------------------------------
(* Claims about the command line *)

\* The command names of the command line: all arguments but a version at
\* its end
Names ==
    IF proc.args # <<>> /\ Last(proc.args) \in ArgVersions
    THEN SubSeq(proc.args, 1, Len(proc.args) - 1)
    ELSE proc.args

UnknownName == \E k \in 1..Len(Names) : Names[k] \notin AvailableCommands

\* Nothing of any command has happened
NothingRan ==
    /\ proc.idx = 0
    /\ disk = EmptyDisk
    /\ events = <<>>
    /\ netCalls = 0
    /\ cache = NoCache

\* With an unknown name cli() exits with status 1 before any command; with
\* none it takes the names as its commands, in their order
Validated ==
    /\ proc.status = "start" => NothingRan
    /\ proc.status # "start" /\ UnknownName =>
            /\ proc.status = "exit"
            /\ proc.code = 1
            /\ NothingRan
    /\ proc.status = "running" => ~UnknownName /\ proc.commands = Names
    /\ proc.status = "done" => proc.idx = Len(Names)

\* A step of cli(): a command starts only as the next one of the line,
\* while cli() is running and the command before it has returned; after an
\* exception or an exit nothing more happens
InOrder ==
    /\ proc'.idx # proc.idx =>
            /\ proc'.idx = proc.idx + 1
            /\ proc.status = "running"
            /\ proc.phase = "return"
            /\ proc'.commands = proc.commands
            /\ proc.commands[proc'.idx] = Names[proc'.idx]
    /\ proc.status \in {"raised", "exit", "done"} =>
            UNCHANGED <<proc, disk, events, netCalls, cache, atStart>>

\* C22: every name of the command line is checked before a command runs
\* (an unknown one ends cli() with exit status 1 and nothing run), the
\* commands run in the order of the line, each after the one before it has
\* returned, and after a command that raised or exited no later one runs.
C22_ValidatedThenInOrder == []Validated /\ [][InOrder]_vars

\* Reached: build, then clear on one line: clear started with the jars of
\* the build that had returned, and removed them
C22_Witness ==
    /\ Names = <<"build", "clear">>
    /\ proc.idx = 2
    /\ atStart.disk.jars # {}
    /\ disk = EmptyDisk
    /\ proc.status = "done"

====
